---------------------------- MODULE Spec2Model ----------------------------
(***************************************************************************)
(* Model of src/código/generar_figuras.py: the loader cargar_datos, the    *)
(* thirteen figure functions fig1..fig13 and the driver                    *)
(* generar_todas_las_figuras.                                              *)
(*                                                                         *)
(* A table (pandas DataFrame) is [columns, rows]: the set of column names  *)
(* and the sequence of rows in file order.  Numbers computed by the        *)
(* program are IEEE doubles; here they are exact rationals <<n, d>> in     *)
(* lowest terms, with <<1,0>> = inf, <<-1,0>> = -inf and <<0,0>> = NaN,    *)
(* which is what numpy's division yields for a zero denominator.           *)
(***************************************************************************)
EXTENDS Integers, Sequences, FiniteSets, TLC

VARIABLES
    file,       \* the input CSV: [exists, sep, header, rows]
    pc,         \* where the caller is: "cargar", "fig", "completar", "fin", "abortado", "llamadas"
    nextFig,    \* index of the next figure generar_todas_las_figuras calls
    df,         \* the loaded table, or NoTable before the load
    figuras,    \* the list generar_todas_las_figuras builds (line 1148)
    disk,       \* the output directories: path -> content of the file
    plt,        \* pyplot's stack of open figures; the last one is the current figure
    err,        \* the unhandled exception that ended the run, or NoError
    calls,      \* the figure functions called so far, in order
    loads,      \* how many times cargar_datos has been called
    ret,        \* what the last figure call returned or raised
    mensaje,    \* TRUE once the "COMPLETADO" message (line 1164) is printed
    quicksort,  \* the order in which this build's default sort kind ('quicksort')
                \* leaves equal keys: "original" or "inverso"
    dirs,       \* the directories that exist
    consola     \* the numeric values printed so far: <<[line, valores]>>

vars == <<file, pc, nextFig, df, figuras, disk, plt, err, calls, loads, ret, mensaje,
          quicksort, dirs, consola>>

(***************************************************************************)
(* Bounds of the model.                                                    *)
(***************************************************************************)
\* tasa_mortalidad values of the generated tables are RateStep * (0..MaxRate)
RateStep == 10
MaxRate == 10
\* calls a caller makes to individual figure functions (SpecLlamadas)
MaxCalls == 2

NFIG == 13

(***************************************************************************)
(* Rational arithmetic with the IEEE special values.                       *)
(***************************************************************************)
Abs(x) == IF x < 0 THEN -x ELSE x
Sgn(x) == IF x < 0 THEN -1 ELSE IF x > 0 THEN 1 ELSE 0

RECURSIVE GCD(_, _)
GCD(x, y) == IF y = 0 THEN x ELSE GCD(y, x % y)

NaN == <<0, 0>>
Inf == <<1, 0>>
R(n) == <<n, 1>>

RatNorm(n, d) ==
    IF d = 0 THEN <<Sgn(n), 0>>
    ELSE LET g == GCD(Abs(n), Abs(d))
             s == Sgn(d)
         IN  <<(s * n) \div g, (s * d) \div g>>

IsNaN(q) == q = NaN
Finite(q) == q[2] # 0

RatNeg(q) == <<-q[1], q[2]>>

RatAdd(p, q) ==
    IF IsNaN(p) \/ IsNaN(q) THEN NaN
    ELSE IF p[2] = 0 /\ q[2] = 0 THEN (IF p = q THEN p ELSE NaN)
    ELSE IF p[2] = 0 THEN p
    ELSE IF q[2] = 0 THEN q
    ELSE RatNorm(p[1] * q[2] + q[1] * p[2], p[2] * q[2])

RatSub(p, q) == RatAdd(p, RatNeg(q))

RatMul(p, q) == RatNorm(p[1] * q[1], p[2] * q[2])

\* a division that substitutes 0 for a quotient by zero
RatDivGuardada(p, q) ==
    IF p[2] * q[1] = 0 THEN R(0) ELSE RatNorm(p[1] * q[2], p[2] * q[1])

\* numpy float division: x/0 is inf, -inf or NaN, never an exception
RatDiv(p, q) ==
    LET n == p[1] * q[2]
        d == p[2] * q[1]
    IN  IF d = 0 THEN <<Sgn(n) * (IF q[1] < 0 THEN -1 ELSE 1), 0>>
        ELSE RatNorm(n, d)

\* comparisons are false when either side is NaN
RatLt(p, q) ==
    /\ ~IsNaN(p) /\ ~IsNaN(q)
    /\ p # q
    /\ IF p[2] = 0 THEN p[1] < 0
       ELSE IF q[2] = 0 THEN q[1] > 0
       ELSE p[1] * q[2] < q[1] * p[2]

RatGt(p, q) == RatLt(q, p)

RECURSIVE SumSeq(_)
SumSeq(s) == IF s = <<>> THEN 0 ELSE Head(s) + SumSeq(Tail(s))

\* a mean that weighs each value by its position
MediaPorPosicion(s) ==
    RatDiv(R(SumSeq([i \in DOMAIN s |-> i * s[i]])), R(SumSeq([i \in DOMAIN s |-> i])))

\* Series.mean(): the mean of no value is NaN
Mean(s) == RatDiv(R(SumSeq(s)), R(Len(s)))

\* Python's builtin max over a list of floats: the running maximum is replaced
\* only when `item > max` holds, so a NaN in first place stays and a later NaN
\* is skipped.  Only called on non-empty lists.
RECURSIVE PyMaxFrom(_, _)
PyMaxFrom(m, s) ==
    IF s = <<>> THEN m
    ELSE PyMaxFrom(IF RatGt(Head(s), m) THEN Head(s) ELSE m, Tail(s))

PyMax(s) == PyMaxFrom(Head(s), Tail(s))

(***************************************************************************)
(* Tables.  A row carries the eight columns of the dataset (section        *)
(* "External interfaces"; the names are the ones the figure functions      *)
(* filter on).                                                             *)
(***************************************************************************)
COLS == <<"periodo", "causa_mortalidad", "sexo", "ubicacion", "provincia",
          "nivel_geografico", "tasa_mortalidad", "esperanza_vida">>

Range(s) == {s[i] : i \in DOMAIN s}

CV == "Comunitat Valenciana"
HOSPITAL == "HOSPITAL/ZONA SALUD"
CAUSAS == <<"General", "Cancer", "Cardio", "Cerebro", "Suicidio">>

Fila(periodo, causa, sexo, ubicacion, provincia, nivel, tasa, ev) ==
    [periodo |-> periodo, causa_mortalidad |-> causa, sexo |-> sexo,
     ubicacion |-> ubicacion, provincia |-> provincia, nivel_geografico |-> nivel,
     tasa_mortalidad |-> tasa, esperanza_vida |-> ev]

FilaCV(periodo, causa, sexo, tasa, ev) ==
    Fila(periodo, causa, sexo, CV, "", "COMUNIDAD", tasa, ev)

\* life expectancy of the generated rows (years, at 65)
EvH == 19
EvA == 21
EvM(b) == 19 + ((b \div RateStep) % 5)

\* The generated dataset: the least set of rows on which every figure can
\* succeed, its rates built from two parameters a and b.
Base(a, b) ==
    << FilaCV(2010, "General", "Ambos sexos", a, EvA),
       FilaCV(2018, "General", "Ambos sexos", a, EvA),
       FilaCV(2019, "General", "Ambos sexos", b, EvA),
       FilaCV(2020, "General", "Ambos sexos", a + RateStep, EvA),
       FilaCV(2021, "General", "Ambos sexos", a + b, EvA),
       FilaCV(2022, "General", "Ambos sexos", b, EvA),
       FilaCV(2023, "General", "Ambos sexos", b, EvA),
       FilaCV(2010, "Cancer", "Ambos sexos", a, EvA),
       FilaCV(2023, "Cancer", "Ambos sexos", b, EvA),
       FilaCV(2010, "Cardio", "Ambos sexos", b, EvA),
       FilaCV(2023, "Cardio", "Ambos sexos", a, EvA),
       FilaCV(2010, "Cerebro", "Ambos sexos", a, EvA),
       FilaCV(2023, "Cerebro", "Ambos sexos", a, EvA),
       FilaCV(2010, "Suicidio", "Ambos sexos", b, EvA),
       FilaCV(2023, "Suicidio", "Ambos sexos", a, EvA),
       FilaCV(2022, "General", "Hombres", a, EvH),
       FilaCV(2023, "General", "Hombres", b, EvH),
       FilaCV(2022, "General", "Mujeres", b, EvM(b)),
       FilaCV(2023, "General", "Mujeres", b, EvM(b)),
       FilaCV(2023, "Cancer", "Hombres", a, EvH),
       FilaCV(2023, "Cancer", "Mujeres", b, EvM(b)),
       FilaCV(2023, "Cardio", "Hombres", a + b, EvH),
       FilaCV(2023, "Cardio", "Mujeres", b, EvM(b)),
       FilaCV(2022, "Cardio", "Mujeres", a, EvM(b)),
       FilaCV(2023, "Cerebro", "Hombres", a, EvH),
       FilaCV(2023, "Cerebro", "Mujeres", b, EvM(b)),
       FilaCV(2023, "Suicidio", "Hombres", a + a, EvH),
       FilaCV(2023, "Suicidio", "Mujeres", b, EvM(b)),
       Fila(2023, "General", "Ambos sexos", "Alcoi", "Alicante", HOSPITAL, a, EvA),
       Fila(2023, "General", "Ambos sexos", "La Ribera", "Valencia", HOSPITAL, b, EvA),
       Fila(2022, "General", "Ambos sexos", "Alcoi", "Alicante", HOSPITAL, a, EvA),
       Fila(2023, "General", "Ambos sexos", "La Ribera", "Valencia", HOSPITAL, a, EvA),
       Fila(2023, "General", "Ambos sexos", "Alicante", "Alicante", "PROVINCIA", a, EvA) >>

NBase == Len(Base(0, 0))

\* What a dataset may lack: nothing, one row, every row with a given value in a
\* column, or every row but those with a given value; or what it may have
\* twice: one row, followed by a second row of the same keys with another
\* rate and another life expectancy; or every row of two consecutive years;
\* or what it may have otherwise: a department row under another province
\* or under none.
Ninguna == [kind |-> "ninguna", i |-> 0, col |-> "", val |-> ""]
Perturbaciones ==
    {Ninguna}
    \cup {[kind |-> "fila", i |-> i, col |-> "", val |-> ""] : i \in 1..NBase}
    \cup {[kind |-> "sin", i |-> 0, col |-> "causa_mortalidad", val |-> c] : c \in Range(CAUSAS)}
    \cup {[kind |-> "sin", i |-> 0, col |-> "sexo", val |-> s] :
             s \in {"Ambos sexos", "Hombres", "Mujeres"}}
    \cup {[kind |-> "sin", i |-> 0, col |-> "nivel_geografico", val |-> n] :
             n \in {"COMUNIDAD", "PROVINCIA", HOSPITAL}}
    \cup {[kind |-> "solo", i |-> 0, col |-> "causa_mortalidad", val |-> "General"]}
    \cup {[kind |-> "doble", i |-> i, col |-> "", val |-> ""] : i \in 1..NBase}
    \cup {[kind |-> "sin_anios", i |-> y, col |-> "", val |-> ""] : y \in {2018, 2022}}
    \cup {[kind |-> "provincia", i |-> i, col |-> "provincia", val |-> v] :
             i \in {j \in 1..NBase : Base(0, 0)[j].nivel_geografico = HOSPITAL},
             v \in {"", "Castellón"}}

RECURSIVE SinFila(_, _)
SinFila(rows, i) ==
    IF rows = <<>> THEN <<>>
    ELSE IF i = 1 THEN Tail(rows)
    ELSE <<Head(rows)>> \o SinFila(Tail(rows), i - 1)

RECURSIVE ConDoble(_, _)
ConDoble(rows, i) ==
    IF rows = <<>> THEN <<>>
    ELSE IF i = 1
         THEN << Head(rows),
                 [Head(rows) EXCEPT !.tasa_mortalidad = @ + RateStep,
                                    !.esperanza_vida = @ + 1] >> \o Tail(rows)
    ELSE <<Head(rows)>> \o ConDoble(Tail(rows), i - 1)

Perturbar(rows, p) ==
    CASE p.kind = "ninguna" -> rows
      [] p.kind = "fila" -> SinFila(rows, p.i)
      [] p.kind = "sin" -> SelectSeq(rows, LAMBDA r : r[p.col] # p.val)
      [] p.kind = "solo" -> SelectSeq(rows, LAMBDA r : r[p.col] = p.val)
      [] p.kind = "doble" -> ConDoble(rows, p.i)
      [] p.kind = "provincia" -> [rows EXCEPT ![p.i].provincia = p.val]
      [] p.kind = "sin_anios" -> SelectSeq(rows, LAMBDA r : r.periodo \notin {p.i, p.i + 1})

Rates == {RateStep * i : i \in 0..MaxRate}
RateHi == RateStep * MaxRate
RateLo == RateStep * (MaxRate - 1)

\* the Comunitat Valenciana / Suicidio / Ambos sexos series
\* rate = 1000 - 5 * (year - 2010), one row for each year 2010..2023
SerieLineal ==
    [i \in 1..14 |-> FilaCV(2009 + i, "Suicidio", "Ambos sexos", 1000 - 5 * (i - 1), EvA)]

\* The complete dataset with that series for its Suicidio / Ambos sexos rows
\* and with three department rows whose rate falls by RateStep from one to
\* the next while life expectancy rises by one year and then by `paso`.
TablaLineal(paso) ==
    SelectSeq(Base(RateHi, RateLo),
              LAMBDA r : /\ ~(r.causa_mortalidad = "Suicidio" /\ r.sexo = "Ambos sexos")
                         /\ r.nivel_geografico # HOSPITAL)
    \o SerieLineal
    \o << Fila(2023, "General", "Ambos sexos", "Alcoi", "Alicante", HOSPITAL, RateHi, EvA),
          Fila(2023, "General", "Ambos sexos", "La Ribera", "Valencia", HOSPITAL, RateLo,
               EvA + 1),
          Fila(2022, "General", "Ambos sexos", "Alcoi", "Alicante", HOSPITAL,
               RateLo - RateStep, EvA + 1 + paso) >>

\* every (a, b) with the complete dataset, every perturbation with two of
\* them, and the two datasets with the linear series
Datasets ==
    {Base(a, b) : a \in Rates, b \in Rates}
    \cup {Perturbar(Base(ab[1], ab[2]), p) :
             ab \in {<<RateHi, RateLo>>, <<5 * RateStep, RateStep>>}, p \in Perturbaciones}
    \cup {TablaLineal(paso) : paso \in 1..2}

(***************************************************************************)
(* The input file and the loader.                                          *)
(***************************************************************************)
ArchivoBueno(rows) == [exists |-> TRUE, sep |-> ";", header |-> COLS, rows |-> rows]

\* header with column i under another name
Renombrada(i) == [j \in DOMAIN COLS |-> IF j = i THEN "otra" ELSE COLS[j]]

Archivos ==
    {ArchivoBueno(rows) : rows \in Datasets}
    \cup {[ArchivoBueno(Base(RateHi, RateLo)) EXCEPT !.exists = FALSE]}
    \cup {[ArchivoBueno(Base(RateHi, RateLo)) EXCEPT !.sep = ","]}
    \cup {[ArchivoBueno(Base(RateHi, RateLo)) EXCEPT !.header = Renombrada(i)] :
             i \in DOMAIN COLS}

RECURSIVE Join(_, _)
Join(names, sep) ==
    IF Len(names) = 1 THEN Head(names)
    ELSE Head(names) \o sep \o Join(Tail(names), sep)

\* a reader that detects the separator (sep=None)
read_csv_detecta(f) == [columns |-> Range(f.header), rows |-> f.rows]

\* pd.read_csv(filepath, sep=';'): a header line without ';' is one column
read_csv(f) ==
    [columns |-> IF f.sep = ";" THEN Range(f.header) ELSE {Join(f.header, f.sep)},
     rows |-> f.rows]

NoTable == [columns |-> {}, rows |-> <<>>]
NoError == [exc |-> "", line |-> 0]

\* print(... {len(df)} registros, {len(df.columns)} columnas), line 90, and
\* print(... {df['periodo'].min()} - {df['periodo'].max()}), line 91
cargar_prints(t) ==
    LET ys == {t.rows[i].periodo : i \in DOMAIN t.rows}
    IN  << [line |-> 90, valores |-> <<Len(t.rows), Cardinality(t.columns)>>] >>
        \o IF "periodo" \notin t.columns THEN <<>>
           ELSE << [line |-> 91,
                    valores |-> IF ys = {} THEN <<>>
                                ELSE << CHOOSE y \in ys : \A z \in ys : y <= z,
                                        CHOOSE y \in ys : \A z \in ys : y >= z >>] >>

cargar_datos(f) ==
    IF ~f.exists THEN [raised |-> TRUE, exc |-> "FileNotFoundError", line |-> 89, df |-> NoTable,
                       prints |-> <<>>]
    ELSE LET t == read_csv(f)
         IN  IF "periodo" \notin t.columns
                 THEN [raised |-> TRUE, exc |-> "KeyError", line |-> 91, df |-> NoTable,
                       prints |-> cargar_prints(t)]
             ELSE IF "causa_mortalidad" \notin t.columns
                 THEN [raised |-> TRUE, exc |-> "KeyError", line |-> 92, df |-> NoTable,
                       prints |-> cargar_prints(t)]
             ELSE [raised |-> FALSE, exc |-> "", line |-> 93, df |-> t,
                   prints |-> cargar_prints(t)]

(***************************************************************************)
(* pandas / numpy operations the figures use.                              *)
(***************************************************************************)
Col(rows, c) == [i \in DOMAIN rows |-> rows[i][c]]

\* df[(df['ubicacion'] == u) & (df['causa_mortalidad'] == c) & (df['sexo'] == s)]
SelCV(t, causa, sexo) ==
    SelectSeq(t.rows, LAMBDA r : /\ r.ubicacion = CV
                                 /\ r.causa_mortalidad = causa
                                 /\ r.sexo = sexo)

\* a lookup that falls back on the first row when the year is missing
DelAnioAprox(rows, year) ==
    IF \E i \in DOMAIN rows : rows[i].periodo = year
        THEN SelectSeq(rows, LAMBDA r : r.periodo = year)
        ELSE IF rows = <<>> THEN <<>> ELSE <<rows[1]>>

\* rows[rows['periodo'] == year]
DelAnio(rows, year) == SelectSeq(rows, LAMBDA r : r.periodo = year)

\* rows[rows['periodo'].isin(years)]
DeAnios(rows, years) == SelectSeq(rows, LAMBDA r : r.periodo \in years)

\* sort_values('periodo'): a new frame, ascending.  The default kind,
\* 'quicksort', promises no order of rows with equal keys: numpy's generic
\* quicksort sorts up to 16 elements by insertion and leaves them in their
\* order ("original"); another build (a vectorised sort) may not, and
\* "inverso" stands for those: equal keys come out in the reverse order.
RECURSIVE Insertar(_, _, _)
Insertar(sorted, r, c) ==
    IF sorted = <<>> THEN <<r>>
    ELSE IF \/ r[c] < Head(sorted)[c]
            \/ quicksort = "inverso" /\ r[c] = Head(sorted)[c]
         THEN <<r>> \o sorted
    ELSE <<Head(sorted)>> \o Insertar(Tail(sorted), r, c)

RECURSIVE sort_values(_, _)
sort_values(rows, c) ==
    IF rows = <<>> THEN <<>>
    ELSE Insertar(sort_values(SubSeq(rows, 1, Len(rows) - 1), c), rows[Len(rows)], c)

\* the value of the last row
Ultimo(rows, c) == R(rows[Len(rows)][c])

\* ...[col].values[0] where the selection is known not to be empty
Primero(rows, c) == R(rows[1][c])

\* the ratio of the two sexes' rates of 2023 alone
RatioHM2023(t, causa) ==
    RatDiv(Mean(Col(DelAnio(SelCV(t, causa, "Hombres"), 2023), "tasa_mortalidad")),
           Mean(Col(DelAnio(SelCV(t, causa, "Mujeres"), 2023), "tasa_mortalidad")))

\* h / m of the ratio figures: the means of the two sexes over all years
RatioHM(t, causa) ==
    RatDiv(Mean(Col(SelCV(t, causa, "Hombres"), "tasa_mortalidad")),
           Mean(Col(SelCV(t, causa, "Mujeres"), "tasa_mortalidad")))

\* the change relative to the end value: ((fin - inicio) / fin) * 100
CambioPctFin(inicio, fin) == RatMul(RatDiv(RatSub(fin, inicio), fin), R(100))

\* the end value as a percentage of the start value: (fin / inicio) * 100
CambioPctCociente(inicio, fin) == RatMul(RatDiv(fin, inicio), R(100))

\* ((fin - inicio) / inicio) * 100
CambioPct(inicio, fin) == RatMul(RatDiv(RatSub(fin, inicio), inicio), R(100))

Reverse(s) == [i \in DOMAIN s |-> s[Len(s) + 1 - i]]

\* [values[i] for i in orden]
Permutar(values, orden) == [i \in DOMAIN orden |-> values[orden[i]]]

\* np.argsort(values): indices in ascending order of value, NaN last, equal
\* values in the order the build's quicksort leaves them
RECURSIVE InsertarIdx(_, _, _)
InsertarIdx(sorted, i, v) ==
    IF sorted = <<>> THEN <<i>>
    ELSE IF \/ ~IsNaN(v[i]) /\ (IsNaN(v[Head(sorted)]) \/ RatLt(v[i], v[Head(sorted)]))
            \/ quicksort = "inverso" /\ v[i] = v[Head(sorted)]
         THEN <<i>> \o sorted
    ELSE <<Head(sorted)>> \o InsertarIdx(Tail(sorted), i, v)

RECURSIVE ArgSortN(_, _)
ArgSortN(v, n) == IF n = 0 THEN <<>> ELSE InsertarIdx(ArgSortN(v, n - 1), n, v)

argsort(v) == ArgSortN(v, Len(v))

\* the line m * x + c of least squares through the points (xs[i], ys[i]):
\* <<m, c>>, exact
MinimosCuadrados(xs, ys) ==
    LET n == Len(xs)
        sx == SumSeq(xs)
        sy == SumSeq(ys)
        sxx == SumSeq([i \in DOMAIN xs |-> xs[i] * xs[i]])
        sxy == SumSeq([i \in DOMAIN xs |-> xs[i] * ys[i]])
        m == RatDiv(R(n * sxy - sx * sy), R(n * sxx - sx * sx))
    IN  <<m, RatDiv(RatSub(R(sy), RatMul(m, R(sx))), R(n))>>

\* the fit of x against y
polyfit_invertido(x, y) == MinimosCuadrados(y, x)

\* np.polyfit(x, y, 1): the coefficients, highest power first
polyfit(x, y) == MinimosCuadrados(x, y)

\* stats.pearsonr(x, y)[0], a real number given by its sign and its square;
\* NaN when x or y is constant
pearsonr(xs, ys) ==
    LET n == Len(xs)
        sx == SumSeq(xs)
        sy == SumSeq(ys)
        cov == n * SumSeq([i \in DOMAIN xs |-> xs[i] * ys[i]]) - sx * sy
        vx == n * SumSeq([i \in DOMAIN xs |-> xs[i] * xs[i]]) - sx * sx
        vy == n * SumSeq([i \in DOMAIN ys |-> ys[i] * ys[i]]) - sy * sy
    IN  IF vx = 0 \/ vy = 0 THEN [signo |-> 0, cuadrado |-> NaN]
        ELSE [signo |-> Sgn(cov),
              cuadrado |-> RatMul(RatDiv(R(cov), R(vx)), RatDiv(R(cov), R(vy)))]

\* Axes.set_xlim / set_ylim raise ValueError on a NaN or infinite limit
LimiteInvalido(q) == ~Finite(q)

\* f'{x:.1f}': the value in tenths, rounded half to even; NaN and inf print as
\* such and are kept
Fmt1(q) ==
    IF ~Finite(q) THEN q
    ELSE LET n == Abs(q[1]) * 10
             w == n \div q[2]
             r2 == 2 * (n % q[2])
             up == IF r2 > q[2] \/ (r2 = q[2] /\ w % 2 = 1) THEN 1 ELSE 0
         IN  R(Sgn(q[1]) * (w + up))

(***************************************************************************)
(* pyplot: the figures a call opens and the files it saves.                *)
(***************************************************************************)
\* plt.gcf(): the current figure if there is one, a new one otherwise
FiguraActual(stack) == IF stack = <<>> THEN <<<<>>>> ELSE stack

\* plt.subplots() / plt.figure(): a new, empty figure becomes the current one
NewFigure(stack) == Append(stack, <<>>)

\* drawing goes to the axes of the figure the call created: the last opened
Draw(stack, item) == [stack EXCEPT ![Len(stack)] = Append(@, item)]

\* plt.savefig(path) saves the current figure
CurrentFigure(stack) == stack[Len(stack)]

\* plt.close() closes the current figure
Close(stack) == SubSeq(stack, 1, Len(stack) - 1)

OUTPUT_DIR == "figuras"

\* os.path.join(output_dir, name)
PathJoin(dir, name) == dir \o "/" \o name

\* the names if fig13 reused the file name of fig12
NOMBRES_repetidos ==
    << "fig1_evolucion_mortalidad_general.png",
       "fig2_jerarquia_causas_mortalidad.png",
       "fig3_evolucion_causas_especificas.png",
       "fig4_disparidad_genero_ratio.png",
       "fig5_comparativa_sexo_causa.png",
       "fig6_esperanza_vida_genero.png",
       "fig7_ranking_departamentos.png",
       "fig8_heatmap_departamentos.png",
       "fig9_tendencia_suicidio.png",
       "fig10_scatter_correlacion.png",
       "fig11_comparativa_provincias.png",
       "fig12_impacto_covid.png",
       "fig12_impacto_covid.png" >>

NOMBRES ==
    << "fig1_evolucion_mortalidad_general.png",
       "fig2_jerarquia_causas_mortalidad.png",
       "fig3_evolucion_causas_especificas.png",
       "fig4_disparidad_genero_ratio.png",
       "fig5_comparativa_sexo_causa.png",
       "fig6_esperanza_vida_genero.png",
       "fig7_ranking_departamentos.png",
       "fig8_heatmap_departamentos.png",
       "fig9_tendencia_suicidio.png",
       "fig10_scatter_correlacion.png",
       "fig11_comparativa_provincias.png",
       "fig12_impacto_covid.png",
       "fig13_dashboard_resumen.png" >>

(***************************************************************************)
(* A figure function is a straight run of statements, some of which can    *)
(* raise.  Each function below lists, in program order, the statements     *)
(* that can raise with the condition under which they do, and the values   *)
(* it draws when none does.                                                *)
(***************************************************************************)
Ev(line, exc, cond) == [line |-> line, exc |-> exc, cond |-> cond]

\* df['col'] raises KeyError when the table has no such column
Key(t, line, col) == Ev(line, "KeyError", col \notin t.columns)

\* ....values[0] raises IndexError on an empty selection
Idx(line, rows) == Ev(line, "IndexError", rows = <<>>)

RECURSIVE PrimerError(_)
PrimerError(evs) ==
    IF evs = <<>> THEN NoError
    ELSE IF Head(evs).cond THEN [exc |-> Head(evs).exc, line |-> Head(evs).line]
    ELSE PrimerError(Tail(evs))

(***************************************************************************)
(* FIGURA 1 (lines 99-162)                                                 *)
(***************************************************************************)
fig1_cv_ambos(t) == sort_values(SelCV(t, "General", "Ambos sexos"), "periodo")

fig1_errores(t) ==
    << Key(t, 109, "ubicacion"), Key(t, 110, "causa_mortalidad"),
       Key(t, 121, "sexo"), Key(t, 121, "periodo"), Key(t, 122, "tasa_mortalidad"),
       Idx(128, DelAnio(fig1_cv_ambos(t), 2023)),
       Idx(129, DelAnio(fig1_cv_ambos(t), 2021)) >>

fig1_valores(t) ==
    [mort_2023 |-> Primero(DelAnio(fig1_cv_ambos(t), 2023), "tasa_mortalidad"),
     mort_2021 |-> Primero(DelAnio(fig1_cv_ambos(t), 2021), "tasa_mortalidad"),
     \* the values annotated under the labels 'Mínimo histórico' (line 131) and
     \* 'Pico COVID' (line 137)
     minimo_historico |-> Primero(DelAnio(fig1_cv_ambos(t), 2023), "tasa_mortalidad"),
     pico_covid |-> Primero(DelAnio(fig1_cv_ambos(t), 2021), "tasa_mortalidad")]

(***************************************************************************)
(* FIGURA 2 (lines 168-220)                                                *)
(***************************************************************************)
\* groupby sorts its keys
CAUSAS_ALFA == <<"Cancer", "Cardio", "Cerebro", "General", "Suicidio">>

fig2_seleccion(t) ==
    SelectSeq(t.rows, LAMBDA r : r.ubicacion = CV /\ r.sexo = "Ambos sexos")

\* .groupby('causa_mortalidad')['tasa_mortalidad'].mean(): one entry per cause
\* present in the selection
fig2_causas_data(t) ==
    LET sel == fig2_seleccion(t)
        presentes == SelectSeq(CAUSAS_ALFA,
                         LAMBDA c : \E i \in DOMAIN sel : sel[i].causa_mortalidad = c)
        medias == [i \in DOMAIN presentes |->
                      Mean(Col(SelectSeq(sel, LAMBDA r : r.causa_mortalidad = presentes[i]),
                               "tasa_mortalidad"))]
        orden == argsort(medias)
    IN  [i \in DOMAIN orden |-> [causa |-> presentes[orden[i]], media |-> medias[orden[i]]]]

\* the sorted means with General among them
fig2_causas_con_general(t) == fig2_causas_data(t)

\* causas_data.drop('General')
fig2_causas_especificas(t) ==
    SelectSeq(fig2_causas_data(t), LAMBDA e : e.causa # "General")

fig2_errores(t) ==
    << Key(t, 178, "ubicacion"), Key(t, 179, "sexo"), Key(t, 179, "causa_mortalidad"),
       Key(t, 179, "tasa_mortalidad"),
       Ev(183, "KeyError", "General" \notin Range(Col(fig2_causas_data(t), "causa"))),
       Ev(204, "ValueError", fig2_causas_especificas(t) = <<>>) >>

fig2_valores(t) == [barras |-> fig2_causas_especificas(t)]

(***************************************************************************)
(* FIGURA 3 (lines 226-292)                                                *)
(***************************************************************************)
fig3_causas == <<"Cancer", "Cardio", "Cerebro", "Suicidio">>

fig3_data(t, causa) == sort_values(SelCV(t, causa, "Ambos sexos"), "periodo")

fig3_cambio(t, causa) ==
    CambioPct(Primero(DelAnio(fig3_data(t, causa), 2010), "tasa_mortalidad"),
              Primero(DelAnio(fig3_data(t, causa), 2023), "tasa_mortalidad"))

fig3_errores(t) ==
    << Key(t, 245, "ubicacion"), Key(t, 246, "causa_mortalidad"), Key(t, 247, "sexo"),
       Key(t, 247, "periodo"), Key(t, 252, "tasa_mortalidad"),
       Idx(257, DelAnio(fig3_data(t, "Cancer"), 2010)),
       Idx(258, DelAnio(fig3_data(t, "Cancer"), 2023)),
       Idx(257, DelAnio(fig3_data(t, "Cardio"), 2010)),
       Idx(258, DelAnio(fig3_data(t, "Cardio"), 2023)),
       Idx(257, DelAnio(fig3_data(t, "Cerebro"), 2010)),
       Idx(258, DelAnio(fig3_data(t, "Cerebro"), 2023)),
       Idx(257, DelAnio(fig3_data(t, "Suicidio"), 2010)),
       Idx(258, DelAnio(fig3_data(t, "Suicidio"), 2023)) >>

\* an indicator that is an up arrow with the change whatever its sign
fig3_tendencia_fija(cambio) == [simbolo |-> "arriba", numero |-> Fmt1(cambio)]

\* tendencia_text (lines 260-265): a down arrow and f'{abs(cambio):.1f}' if
\* cambio < 0, an up arrow and f'{cambio:.1f}' otherwise (NaN included)
fig3_tendencia(cambio) ==
    IF RatLt(cambio, R(0)) THEN [simbolo |-> "abajo", numero |-> Fmt1(RatNeg(cambio))]
    ELSE [simbolo |-> "arriba", numero |-> Fmt1(cambio)]

fig3_valores(t) ==
    [cambio |-> [i \in DOMAIN fig3_causas |-> fig3_cambio(t, fig3_causas[i])],
     tendencia |-> [i \in DOMAIN fig3_causas |->
                      fig3_tendencia(fig3_cambio(t, fig3_causas[i]))]]

(***************************************************************************)
(* FIGURA 4 (lines 298-360)                                                *)
(***************************************************************************)
fig4_causas == <<"General", "Cancer", "Cardio", "Cerebro", "Suicidio">>

fig4_ratios(t) == [i \in DOMAIN fig4_causas |-> RatioHM(t, fig4_causas[i])]

\* a descending sort that keeps equal ratios in the order of the list
fig4_orden_estable(t) == argsort([i \in DOMAIN fig4_causas |-> RatNeg(fig4_ratios(t)[i])])

\* np.argsort(ratios)[::-1]
fig4_orden(t) == Reverse(argsort(fig4_ratios(t)))

fig4_ratios_ord(t) == Permutar(fig4_ratios(t), fig4_orden(t))

fig4_errores(t) ==
    << Key(t, 312, "ubicacion"), Key(t, 313, "causa_mortalidad"), Key(t, 314, "sexo"),
       Key(t, 314, "tasa_mortalidad"),
       Ev(349, "ValueError",
          LimiteInvalido(RatMul(PyMax(fig4_ratios_ord(t)), <<12, 10>>))) >>

fig4_valores(t) ==
    [ratios |-> fig4_ratios(t),
     causas_ord |-> Permutar(fig4_causas, fig4_orden(t)),
     ratios_ord |-> fig4_ratios_ord(t)]

(***************************************************************************)
(* FIGURA 5 (lines 366-433)                                                *)
(***************************************************************************)
fig5_causas == <<"Cancer", "Cardio", "Cerebro", "Suicidio">>

fig5_tasas(t, sexo) ==
    [i \in DOMAIN fig5_causas |->
        Mean(Col(SelCV(t, fig5_causas[i], sexo), "tasa_mortalidad"))]

fig5_errores(t) ==
    << Key(t, 381, "ubicacion"), Key(t, 382, "causa_mortalidad"), Key(t, 383, "sexo"),
       Key(t, 383, "tasa_mortalidad") >>

fig5_valores(t) ==
    [tasas_h |-> fig5_tasas(t, "Hombres"), tasas_m |-> fig5_tasas(t, "Mujeres")]

(***************************************************************************)
(* FIGURA 6 (lines 439-498)                                                *)
(***************************************************************************)
fig6_ev_2023(t, sexo) == DelAnio(SelCV(t, "General", sexo), 2023)

fig6_errores(t) ==
    << Key(t, 454, "ubicacion"), Key(t, 455, "causa_mortalidad"), Key(t, 456, "sexo"),
       Key(t, 456, "periodo"), Key(t, 457, "esperanza_vida"),
       Idx(465, fig6_ev_2023(t, "Hombres")),
       Idx(469, fig6_ev_2023(t, "Mujeres")) >>

fig6_valores(t) ==
    LET ev_h_2023 == Primero(fig6_ev_2023(t, "Hombres"), "esperanza_vida")
        ev_m_2023 == Primero(fig6_ev_2023(t, "Mujeres"), "esperanza_vida")
    IN  [ev_h_2023 |-> ev_h_2023, ev_m_2023 |-> ev_m_2023,
         brecha |-> RatSub(ev_m_2023, ev_h_2023)]

(***************************************************************************)
(* FIGURA 7 (lines 504-563)                                                *)
(***************************************************************************)
\* the locations and provinces of the datasets, in the order groupby and
\* pivot_table sort them
LUGARES == <<"Alcoi", "Alicante", CV, "La Ribera">>
PROVINCIAS == <<"Alicante", "Castellón", "Valencia">>

\* General / Ambos sexos / HOSPITAL-ZONA SALUD
SelDepartamentos(t) ==
    SelectSeq(t.rows, LAMBDA r : /\ r.causa_mortalidad = "General"
                                 /\ r.sexo = "Ambos sexos"
                                 /\ r.nivel_geografico = HOSPITAL)

\* the descending counterpart of argsort, as sort_values(ascending=False) and
\* nlargest order: larger first, NaN last, equal values in the order the
\* build's quicksort leaves them
RECURSIVE InsertarIdxDesc(_, _, _)
InsertarIdxDesc(sorted, i, v) ==
    IF sorted = <<>> THEN <<i>>
    ELSE IF \/ ~IsNaN(v[i]) /\ (IsNaN(v[Head(sorted)]) \/ RatGt(v[i], v[Head(sorted)]))
            \/ quicksort = "inverso" /\ v[i] = v[Head(sorted)]
         THEN <<i>> \o sorted
    ELSE <<Head(sorted)>> \o InsertarIdxDesc(Tail(sorted), i, v)

RECURSIVE ArgSortDescN(_, _)
ArgSortDescN(v, n) == IF n = 0 THEN <<>> ELSE InsertarIdxDesc(ArgSortDescN(v, n - 1), n, v)

argsort_desc(v) == ArgSortDescN(v, Len(v))

\* .groupby(['ubicacion', 'provincia']).agg({'tasa_mortalidad': 'mean'})
\* .reset_index().sort_values('tasa_mortalidad', ascending=True); groupby
\* leaves out the rows whose key is missing ("")
fig7_ranking(t) ==
    LET sel == SelDepartamentos(t)
        np == Len(PROVINCIAS)
        claves == [i \in 1..(Len(LUGARES) * np) |->
                      <<LUGARES[((i - 1) \div np) + 1], PROVINCIAS[((i - 1) % np) + 1]>>]
        grupo(k) == SelectSeq(sel, LAMBDA r : r.ubicacion = k[1] /\ r.provincia = k[2])
        presentes == SelectSeq(claves, LAMBDA k : grupo(k) # <<>>)
        medias == [i \in DOMAIN presentes |-> Mean(Col(grupo(presentes[i]), "tasa_mortalidad"))]
        orden == argsort(medias)
    IN  [i \in DOMAIN orden |->
            [ubicacion |-> presentes[orden[i]][1], provincia |-> presentes[orden[i]][2],
             tasa_mortalidad |-> medias[orden[i]]]]

fig7_errores(t) ==
    << Key(t, 512, "causa_mortalidad"), Key(t, 513, "sexo"), Key(t, 514, "nivel_geografico"),
       Key(t, 515, "ubicacion"), Key(t, 515, "provincia"), Key(t, 516, "tasa_mortalidad") >>

fig7_valores(t) == [ranking |-> fig7_ranking(t)]

(***************************************************************************)
(* FIGURA 8 (lines 569-615)                                                *)
(***************************************************************************)
\* the years of the datasets, ascending
ANIOS == <<2010, 2018, 2019, 2020, 2021, 2022, 2023>>

\* a pivot whose cells are the sums of the rates of the pair's rows
pivot_table_suma(sel) ==
    LET lugares == SelectSeq(LUGARES, LAMBDA u : \E i \in DOMAIN sel : sel[i].ubicacion = u)
        anios == SelectSeq(ANIOS, LAMBDA y : \E i \in DOMAIN sel : sel[i].periodo = y)
    IN  [index |-> lugares,
         columns |-> [j \in DOMAIN anios |-> anios[j]],
         cells |-> [i \in DOMAIN lugares |-> [j \in DOMAIN anios |->
                      R(SumSeq(Col(SelectSeq(sel, LAMBDA r : r.ubicacion = lugares[i]
                                                             /\ r.periodo = anios[j]),
                                   "tasa_mortalidad")))]]]

\* .pivot_table(index='ubicacion', columns='periodo', values='tasa_mortalidad'):
\* a new frame, one row per location and one column per year of the selection,
\* each cell the mean of the selection's rows for the pair (NaN for none)
pivot_table(sel) ==
    LET lugares == SelectSeq(LUGARES, LAMBDA u : \E i \in DOMAIN sel : sel[i].ubicacion = u)
        anios == SelectSeq(ANIOS, LAMBDA y : \E i \in DOMAIN sel : sel[i].periodo = y)
    IN  [index |-> lugares,
         columns |-> [j \in DOMAIN anios |-> anios[j]],
         cells |-> [i \in DOMAIN lugares |-> [j \in DOMAIN anios |->
                      Mean(Col(SelectSeq(sel, LAMBDA r : r.ubicacion = lugares[i]
                                                         /\ r.periodo = anios[j]),
                               "tasa_mortalidad"))]]]

\* mean(axis=1) skips the NaN cells
MeanSkipNaN(qs) ==
    LET vs == SelectSeq(qs, LAMBDA q : ~IsNaN(q))
        RECURSIVE Suma(_)
        Suma(s) == IF s = <<>> THEN R(0) ELSE RatAdd(Head(s), Suma(Tail(s)))
    IN  IF vs = <<>> THEN NaN ELSE RatDiv(Suma(vs), R(Len(vs)))

\* heatmap_data['promedio'] = ...; sort_values('promedio', ascending=False);
\* drop('promedio', axis=1): all three on the pivot, not on df
fig8_heatmap_data(t) ==
    LET pv == pivot_table(SelDepartamentos(t))
        promedio == [i \in DOMAIN pv.index |-> MeanSkipNaN(pv.cells[i])]
        orden == argsort_desc(promedio)
    IN  [index |-> [i \in DOMAIN orden |-> pv.index[orden[i]]],
         columns |-> pv.columns,
         cells |-> [i \in DOMAIN orden |-> pv.cells[orden[i]]]]

fig8_errores(t) ==
    << Key(t, 577, "causa_mortalidad"), Key(t, 578, "sexo"), Key(t, 579, "nivel_geografico"),
       Key(t, 580, "ubicacion"), Key(t, 581, "periodo"), Key(t, 582, "tasa_mortalidad"),
       \* seaborn's heatmap takes the minimum of the cells: none, ValueError
       Ev(591, "ValueError", SelDepartamentos(t) = <<>>) >>

fig8_valores(t) == [heatmap_data |-> fig8_heatmap_data(t)]

(***************************************************************************)
(* FIGURA 9 (lines 621-693)                                                *)
(***************************************************************************)
fig9_data_ambos(t) == sort_values(SelCV(t, "Suicidio", "Ambos sexos"), "periodo")

fig9_errores(t) ==
    << Key(t, 636, "ubicacion"), Key(t, 637, "causa_mortalidad"), Key(t, 638, "sexo"),
       Key(t, 638, "periodo"), Key(t, 639, "tasa_mortalidad"),
       \* np.polyfit: "expected non-empty vector for x"
       Ev(647, "TypeError", fig9_data_ambos(t) = <<>>),
       Idx(653, DelAnio(fig9_data_ambos(t), 2010)),
       Idx(654, DelAnio(fig9_data_ambos(t), 2023)) >>

fig9_valores(t) ==
    [z |-> polyfit(Col(fig9_data_ambos(t), "periodo"),
                   Col(fig9_data_ambos(t), "tasa_mortalidad")),
     cambio |-> CambioPct(Primero(DelAnio(fig9_data_ambos(t), 2010), "tasa_mortalidad"),
                          Primero(DelAnio(fig9_data_ambos(t), 2023), "tasa_mortalidad")),
     \* ax.annotate(f'<up arrow> {cambio:.1f}%...'), line 657: the symbol is
     \* part of the literal, the number is the change in tenths with its sign
     anotacion |->
        [simbolo |-> "arriba",
         numero |-> Fmt1(CambioPct(
                       Primero(DelAnio(fig9_data_ambos(t), 2010), "tasa_mortalidad"),
                       Primero(DelAnio(fig9_data_ambos(t), 2023), "tasa_mortalidad")))],
     ratio_hm |-> RatioHM(t, "Suicidio")]

(***************************************************************************)
(* FIGURA 10 (lines 699-747)                                               *)
(***************************************************************************)
fig10_scatter_data(t) ==
    SelectSeq(t.rows, LAMBDA r : r.causa_mortalidad = "General"
                                 /\ r.nivel_geografico = HOSPITAL)

fig10_errores(t) ==
    LET x == Col(fig10_scatter_data(t), "tasa_mortalidad")
    IN  << Key(t, 707, "causa_mortalidad"), Key(t, 708, "nivel_geografico"),
           Key(t, 714, "sexo"), Key(t, 715, "tasa_mortalidad"), Key(t, 715, "esperanza_vida"),
           \* stats.linregress: empty input, or all x identical (len > 1)
           Ev(721, "ValueError", x = <<>> \/ (Len(x) > 1 /\ \A i \in DOMAIN x : x[i] = x[1])),
           \* stats.pearsonr: "x and y must have length at least 2"
           Ev(727, "ValueError", Len(x) < 2) >>

fig10_valores(t) ==
    [n |-> Len(fig10_scatter_data(t)),
     corr |-> pearsonr(Col(fig10_scatter_data(t), "tasa_mortalidad"),
                       Col(fig10_scatter_data(t), "esperanza_vida"))]

(***************************************************************************)
(* FIGURA 11 (lines 753-806)                                               *)
(***************************************************************************)
fig11_data(t, provincia) ==
    sort_values(SelectSeq(t.rows, LAMBDA r : /\ r.provincia = provincia
                                             /\ r.nivel_geografico = "PROVINCIA"
                                             /\ r.causa_mortalidad = "General"
                                             /\ r.sexo = "Ambos sexos"), "periodo")

fig11_provincias == <<"Alicante", "Valencia", "Castellón">>

\* a line for each of the three provinces, with rows or without
fig11_lineas_todas(t) == fig11_provincias

\* if len(data) > 0: ax.plot(...)
fig11_lineas(t) == SelectSeq(fig11_provincias, LAMBDA p : Len(fig11_data(t, p)) > 0)

fig11_errores(t) ==
    << Key(t, 772, "provincia"), Key(t, 773, "nivel_geografico"),
       Key(t, 774, "causa_mortalidad"), Key(t, 775, "sexo"), Key(t, 775, "periodo"),
       Ev(777, "KeyError", "tasa_mortalidad" \notin t.columns /\ fig11_lineas(t) # <<>>),
       Key(t, 782, "ubicacion"), Key(t, 785, "tasa_mortalidad") >>

fig11_valores(t) ==
    [lineas |-> fig11_lineas(t),
     media_cv |-> Col(sort_values(SelCV(t, "General", "Ambos sexos"), "periodo"),
                      "tasa_mortalidad")]

(***************************************************************************)
(* FIGURA 12 (lines 812-885)                                               *)
(***************************************************************************)
fig12_cv_general(t) == sort_values(SelCV(t, "General", "Ambos sexos"), "periodo")

\* half the sum of the rates of 2018 and 2019
fig12_pre_covid_mitad(t) ==
    RatDiv(R(SumSeq(Col(DeAnios(fig12_cv_general(t), {2018, 2019}), "tasa_mortalidad"))), R(2))

fig12_pre_covid(t) == Mean(Col(DeAnios(fig12_cv_general(t), {2018, 2019}), "tasa_mortalidad"))
fig12_post_covid(t) == Mean(Col(DeAnios(fig12_cv_general(t), {2022, 2023}), "tasa_mortalidad"))

fig12_valores_lista(t) ==
    << fig12_pre_covid(t),
       Primero(DelAnio(fig12_cv_general(t), 2020), "tasa_mortalidad"),
       Primero(DelAnio(fig12_cv_general(t), 2021), "tasa_mortalidad"),
       fig12_post_covid(t) >>

fig12_variaciones(t) ==
    LET v == fig12_valores_lista(t)
    IN  << R(0), CambioPct(v[1], v[2]), CambioPct(v[1], v[3]), CambioPct(v[1], v[4]) >>

fig12_errores(t) ==
    << Key(t, 820, "ubicacion"), Key(t, 821, "causa_mortalidad"), Key(t, 822, "sexo"),
       Key(t, 822, "periodo"), Key(t, 824, "tasa_mortalidad"),
       Idx(825, DelAnio(fig12_cv_general(t), 2020)),
       Idx(826, DelAnio(fig12_cv_general(t), 2021)),
       Ev(846, "ValueError",
          /\ DelAnio(fig12_cv_general(t), 2020) # <<>>
          /\ DelAnio(fig12_cv_general(t), 2021) # <<>>
          /\ LimiteInvalido(RatMul(PyMax(fig12_valores_lista(t)), <<118, 100>>))),
       Ev(873, "ValueError",
          /\ DelAnio(fig12_cv_general(t), 2020) # <<>>
          /\ DelAnio(fig12_cv_general(t), 2021) # <<>>
          /\ LimiteInvalido(RatMul(PyMax(fig12_variaciones(t)), <<13, 10>>))) >>

fig12_valores(t) ==
    [valores |-> fig12_valores_lista(t), variaciones |-> fig12_variaciones(t)]

(***************************************************************************)
(* FIGURA 13 (lines 891-1124)                                              *)
(***************************************************************************)
fig13_cv_general_ambos(t) == sort_values(SelCV(t, "General", "Ambos sexos"), "periodo")

fig13_cv_gen_2022(t, sexo) ==
    SelectSeq(SelectSeq(t.rows, LAMBDA r : /\ r.ubicacion = CV
                                           /\ r.causa_mortalidad = "General"
                                           /\ r.periodo = 2022),
              LAMBDA r : r.sexo = sexo)

\* a gap that is a literal of the program
fig13_brecha_literal(t) == R(5)

\* ev_m_2022 - ev_h_2022 (lines 933-935)
fig13_brecha_genero(t) ==
    RatSub(Primero(fig13_cv_gen_2022(t, "Mujeres"), "esperanza_vida"),
           Primero(fig13_cv_gen_2022(t, "Hombres"), "esperanza_vida"))

fig13_suicidio(t) == sort_values(SelCV(t, "Suicidio", "Ambos sexos"), "periodo")

fig13_causas_ratio == <<"Suicidio", "Cardio", "Cancer", "General", "Cerebro">>

fig13_ratios_calculados(t) ==
    [i \in DOMAIN fig13_causas_ratio |-> RatioHM(t, fig13_causas_ratio[i])]

fig13_orden(t) == Reverse(argsort(fig13_ratios_calculados(t)))

fig13_ratios_ord(t) == Permutar(fig13_ratios_calculados(t), fig13_orden(t))

\* .groupby('ubicacion')['tasa_mortalidad'].mean()
fig13_ranking(t) ==
    LET sel == SelDepartamentos(t)
        presentes == SelectSeq(LUGARES, LAMBDA u : \E i \in DOMAIN sel : sel[i].ubicacion = u)
    IN  [i \in DOMAIN presentes |->
            [ubicacion |-> presentes[i],
             media |-> Mean(Col(SelectSeq(sel, LAMBDA r : r.ubicacion = presentes[i]),
                                "tasa_mortalidad"))]]

\* The 'extremes by department' panel.  bottom3 = ranking.nsmallest(3) and
\* top3 = ranking.nlargest(3) (lines 971-972) take up to three entries each,
\* entries of equal mean in the order of the ranking (keep='first');
\* depts, vals and colors_dept are the lists of lines 1063-1065.
fig13_extremos(t) ==
    LET rk == fig13_ranking(t)
        n == IF Len(rk) < 3 THEN Len(rk) ELSE 3
        menores(i) == {j \in DOMAIN rk : \/ RatLt(rk[j].media, rk[i].media)
                                         \/ rk[j].media = rk[i].media /\ j < i}
        mayores(i) == {j \in DOMAIN rk : \/ RatGt(rk[j].media, rk[i].media)
                                         \/ rk[j].media = rk[i].media /\ j < i}
        bottom3 == [k \in 1..n |-> rk[CHOOSE i \in DOMAIN rk : Cardinality(menores(i)) = k - 1]]
        top3 == [k \in 1..n |-> rk[CHOOSE i \in DOMAIN rk : Cardinality(mayores(i)) = k - 1]]
    IN  [depts |-> [k \in 1..n |-> bottom3[k].ubicacion] \o <<"...">>
                   \o [k \in 1..n |-> top3[n + 1 - k].ubicacion],
         vals |-> [k \in 1..n |-> bottom3[k].media] \o <<R(0)>>
                  \o [k \in 1..n |-> top3[n + 1 - k].media],
         colors_dept |-> <<"success", "success", "success", "white",
                           "danger", "danger", "danger">>]

\* Series.max() / Series.min(): NaN for an empty series
SerieMax(qs) == IF qs = <<>> THEN NaN ELSE qs[argsort_desc(qs)[1]]
SerieMin(qs) == IF qs = <<>> THEN NaN ELSE qs[argsort(qs)[1]]

fig13_pre_covid(t) ==
    Mean(Col(DeAnios(fig13_cv_general_ambos(t), {2018, 2019}), "tasa_mortalidad"))
fig13_post_covid(t) ==
    Mean(Col(DeAnios(fig13_cv_general_ambos(t), {2022, 2023}), "tasa_mortalidad"))

fig13_valores_covid(t) ==
    << fig13_pre_covid(t),
       Primero(DelAnio(fig13_cv_general_ambos(t), 2020), "tasa_mortalidad"),
       Primero(DelAnio(fig13_cv_general_ambos(t), 2021), "tasa_mortalidad"),
       fig13_post_covid(t) >>

fig13_lookups_ok(t) ==
    /\ DelAnio(fig13_cv_general_ambos(t), 2020) # <<>>
    /\ DelAnio(fig13_cv_general_ambos(t), 2021) # <<>>

fig13_errores(t) ==
    << Key(t, 912, "ubicacion"), Key(t, 913, "causa_mortalidad"), Key(t, 914, "sexo"),
       Key(t, 914, "periodo"), Key(t, 917, "tasa_mortalidad"),
       Idx(917, DelAnio(fig13_cv_general_ambos(t), 2023)),
       Idx(918, DelAnio(fig13_cv_general_ambos(t), 2010)),
       Key(t, 933, "esperanza_vida"),
       Idx(933, fig13_cv_gen_2022(t, "Hombres")),
       Idx(934, fig13_cv_gen_2022(t, "Mujeres")),
       Idx(941, DelAnio(fig13_cv_general_ambos(t), 2021)),
       Idx(948, DelAnio(fig13_cv_general_ambos(t), 2020)),
       Key(t, 969, "nivel_geografico"),
       Idx(982, DelAnio(fig13_suicidio(t), 2010)),
       Idx(983, DelAnio(fig13_suicidio(t), 2023)),
       Ev(1055, "ValueError",
          LimiteInvalido(RatMul(PyMax(fig13_ratios_ord(t)), <<115, 100>>))),
       Ev(1093, "ValueError",
          /\ fig13_lookups_ok(t)
          /\ LimiteInvalido(RatMul(PyMax(fig13_valores_covid(t)), <<115, 100>>))) >>

\* the print calls of lines 921-986 that precede line `hasta`
fig13_prints(t, hasta) ==
    LET cga == fig13_cv_general_ambos(t)
        mort_2023 == Primero(DelAnio(cga, 2023), "tasa_mortalidad")
        mort_2010 == Primero(DelAnio(cga, 2010), "tasa_mortalidad")
        promedio_historico ==
            Mean(Col(SelectSeq(cga, LAMBDA r : r.periodo <= 2019), "tasa_mortalidad"))
        covid_2021 == Primero(DelAnio(cga, 2021), "tasa_mortalidad")
        medias == [i \in DOMAIN fig13_ranking(t) |-> fig13_ranking(t)[i].media]
        suic_2010 == Primero(DelAnio(fig13_suicidio(t), 2010), "tasa_mortalidad")
        suic_2023 == Primero(DelAnio(fig13_suicidio(t), 2023), "tasa_mortalidad")
        P(line, vs) == [line |-> line, valores |-> vs]
    IN  (IF hasta <= 921 THEN <<>>
         ELSE <<P(921, <<mort_2023, Fmt1(CambioPct(mort_2010, mort_2023))>>)>>)
        \o (IF hasta <= 927 THEN <<>> ELSE <<P(927, <<Fmt1(<<103, 5>>)>>)>>)
        \o (IF hasta <= 937 THEN <<>> ELSE <<P(937, <<Fmt1(fig13_brecha_genero(t))>>)>>)
        \o (IF hasta <= 944 THEN <<>>
            ELSE <<P(944, <<Fmt1(CambioPct(promedio_historico, covid_2021))>>)>>)
        \o (IF hasta <= 964 THEN <<>> ELSE <<P(964, fig13_ratios_calculados(t))>>)
        \o (IF hasta <= 975 THEN <<>>
            ELSE <<P(975, <<Fmt1(CambioPct(SerieMin(medias), SerieMax(medias)))>>)>>)
        \o (IF hasta <= 986 THEN <<>>
            ELSE <<P(986, <<Fmt1(CambioPct(suic_2010, suic_2023))>>)>>)

fig13_valores(t) ==
    LET cga == fig13_cv_general_ambos(t)
        mort_2023 == Primero(DelAnio(cga, 2023), "tasa_mortalidad")
        mort_2010 == Primero(DelAnio(cga, 2010), "tasa_mortalidad")
        cambio_mort == CambioPct(mort_2010, mort_2023)
        promedio_historico ==
            Mean(Col(SelectSeq(cga, LAMBDA r : r.periodo <= 2019), "tasa_mortalidad"))
        covid_2021 == Primero(DelAnio(cga, 2021), "tasa_mortalidad")
        medias == [i \in DOMAIN fig13_ranking(t) |-> fig13_ranking(t)[i].media]
        suic_2010 == Primero(DelAnio(fig13_suicidio(t), 2010), "tasa_mortalidad")
        suic_2023 == Primero(DelAnio(fig13_suicidio(t), 2023), "tasa_mortalidad")
    IN  [mort_2023 |-> mort_2023,
         cambio_mort |-> cambio_mort,
         \* print(f"... (cambio: {cambio_mort:.1f}%)"), line 921
         kpi1_cambio |-> Fmt1(cambio_mort),
         \* ax1.text(f'<down arrow> {cambio_mort:.1f}% vs 2010'), line 1001
         kpi1 |-> [simbolo |-> "abajo", numero |-> Fmt1(cambio_mort)],
         \* ax8.set_title(f'Tendencia Suicidio (+{cambio_suic:.1f}%)'), line 1105
         titulo_suic |-> [simbolo |-> "+", numero |-> Fmt1(CambioPct(suic_2010, suic_2023))],
         ev_dashboard |-> <<103, 5>>,
         brecha_genero |-> fig13_brecha_genero(t),
         exceso_covid |-> CambioPct(promedio_historico, covid_2021),
         valores_covid |-> fig13_valores_covid(t),
         ratios_calculados |-> fig13_ratios_calculados(t),
         causas_ord |-> Permutar(fig13_causas_ratio, fig13_orden(t)),
         ratios_ord |-> fig13_ratios_ord(t),
         ranking |-> fig13_ranking(t),
         extremos |-> fig13_extremos(t),
         disparidad |-> CambioPct(SerieMin(medias), SerieMax(medias)),
         cambio_suic |-> CambioPct(suic_2010, suic_2023)]

(***************************************************************************)
(* A call of figure function k on table t with pyplot's stack `stack`.     *)
(***************************************************************************)
Errores(k, t) ==
    CASE k = 1 -> fig1_errores(t)   [] k = 2 -> fig2_errores(t)
      [] k = 3 -> fig3_errores(t)   [] k = 4 -> fig4_errores(t)
      [] k = 5 -> fig5_errores(t)   [] k = 6 -> fig6_errores(t)
      [] k = 7 -> fig7_errores(t)   [] k = 8 -> fig8_errores(t)
      [] k = 9 -> fig9_errores(t)   [] k = 10 -> fig10_errores(t)
      [] k = 11 -> fig11_errores(t) [] k = 12 -> fig12_errores(t)
      [] k = 13 -> fig13_errores(t)

Valores(k, t) ==
    CASE k = 1 -> fig1_valores(t)   [] k = 2 -> fig2_valores(t)
      [] k = 3 -> fig3_valores(t)   [] k = 4 -> fig4_valores(t)
      [] k = 5 -> fig5_valores(t)   [] k = 6 -> fig6_valores(t)
      [] k = 7 -> fig7_valores(t)   [] k = 8 -> fig8_valores(t)
      [] k = 9 -> fig9_valores(t)   [] k = 10 -> fig10_valores(t)
      [] k = 11 -> fig11_valores(t) [] k = 12 -> fig12_valores(t)
      [] k = 13 -> fig13_valores(t)

\* the line of plt.subplots / plt.figure in each figure function
ABRE == <<112, 185, 235, 325, 390, 447, 518, 589, 629, 710, 761, 829, 992>>

\* the frame assigned if line 585 wrote df['promedio']
fig8_asignado_df == "df"

\* the frame whose column 'promedio' line 585 assigns: the pivot, not df
fig8_asignado == "heatmap_data"

\* the table a figure function leaves behind
TablaTras(k, t) ==
    IF k = 8 /\ fig8_asignado = "df"
        THEN [t EXCEPT !.columns = @ \cup {"promedio"}]
        ELSE t

Parcial(k) == [fig |-> k, valores |-> [parcial |-> TRUE]]

\* the line of plt.savefig in each figure function
GUARDA == <<158, 216, 288, 356, 429, 494, 559, 611, 689, 743, 802, 881, 1120>>

\* what figure function k prints before line `hasta`
Prints(k, t, hasta) == IF k = 13 THEN fig13_prints(t, hasta) ELSE <<>>

\* plt.savefig creates no directory: it raises FileNotFoundError when
\* output_dir is not among the existing ones
figura(k, t, output_dir, stack, existentes) ==
    LET e == PrimerError(Errores(k, t))
    IN  IF e # NoError
        THEN [fig |-> k, raised |-> TRUE, error |-> e, path |-> "", saved |-> <<>>,
              \* an exception leaves the figure it was drawing open
              plt |-> IF e.line > ABRE[k] THEN Draw(NewFigure(stack), Parcial(k)) ELSE stack,
              df |-> t, prints |-> Prints(k, t, e.line)]
        ELSE LET st == Draw(NewFigure(stack), [fig |-> k, valores |-> Valores(k, t)])
             IN  IF output_dir \notin existentes
                 THEN [fig |-> k, raised |-> TRUE,
                       error |-> [exc |-> "FileNotFoundError", line |-> GUARDA[k]],
                       path |-> "", saved |-> <<>>, plt |-> st,
                       df |-> TablaTras(k, t), prints |-> Prints(k, t, GUARDA[k])]
                 ELSE [fig |-> k, raised |-> FALSE, error |-> NoError,
                       path |-> PathJoin(output_dir, NOMBRES[k]),
                       saved |-> CurrentFigure(st), plt |-> Close(st),
                       df |-> TablaTras(k, t), prints |-> Prints(k, t, GUARDA[k])]

(***************************************************************************)
(* generar_todas_las_figuras (lines 1130-1167)                             *)
(***************************************************************************)
DiscoVacio == [p \in {} |-> <<>>]
NoRet == [fig |-> 0, raised |-> FALSE, error |-> NoError, path |-> "", lista |-> <<>>,
          dir |-> ""]

\* a savefig that does not overwrite: an existing path gets a numbered copy
GuardarCopia(d, path, content) ==
    LET q == IF path \in DOMAIN d THEN path \o ".1" ELSE path
    IN  [p \in DOMAIN d \cup {q} |-> IF p = q THEN content ELSE d[p]]

Guardar(d, path, content) ==
    [p \in DOMAIN d \cup {path} |-> IF p = path THEN content ELSE d[p]]

Init ==
    /\ file \in Archivos
    /\ pc = "cargar"
    /\ nextFig = 1
    /\ df = NoTable
    /\ figuras = <<>>
    /\ disk = DiscoVacio
    /\ plt = <<>>
    /\ err = NoError
    /\ calls = <<>>
    /\ loads = 0
    /\ ret = NoRet
    /\ mensaje = FALSE
    /\ quicksort \in {"original", "inverso"}
    /\ dirs = {OUTPUT_DIR}
    /\ consola = <<>>

\* the driver if it went on with an empty table after a failed load
CargarTolerante ==
    /\ pc = "cargar"
    /\ \E r \in {cargar_datos(file)} :
           /\ loads' = loads + 1
           /\ pc' = "fig"
           /\ err' = IF r.raised THEN [exc |-> r.exc, line |-> r.line] ELSE err
           /\ df' = r.df
           /\ consola' = consola \o r.prints
    /\ UNCHANGED <<quicksort, dirs, file, nextFig, figuras, disk, plt, calls, ret, mensaje>>

\* df = cargar_datos(filepath_datos), line 1145
Cargar ==
    /\ pc = "cargar"
    /\ LET r == cargar_datos(file)
       IN  /\ loads' = loads + 1
           /\ consola' = consola \o r.prints
           /\ IF r.raised
              THEN /\ pc' = "abortado"
                   /\ err' = [exc |-> r.exc, line |-> r.line]
                   /\ df' = df
              ELSE /\ pc' = "fig"
                   /\ err' = err
                   /\ df' = r.df
    /\ UNCHANGED <<quicksort, dirs, file, nextFig, figuras, disk, plt, calls, ret, mensaje>>

\* the driver if it caught what a figure raises and went on with the next one
PasoTolerante(k) ==
    /\ pc = "fig"
    /\ nextFig = k
    /\ \E o \in {figura(k, df, OUTPUT_DIR, plt, dirs)} :
           /\ calls' = Append(calls, k)
           /\ plt' = o.plt
           /\ df' = o.df
           /\ consola' = consola \o o.prints
           /\ ret' = [fig |-> k, raised |-> o.raised, error |-> o.error, path |-> o.path,
                      lista |-> <<>>, dir |-> OUTPUT_DIR]
           /\ disk' = IF o.raised THEN disk ELSE Guardar(disk, o.path, o.saved)
           /\ figuras' = IF o.raised THEN figuras ELSE Append(figuras, o.path)
           /\ err' = IF o.raised THEN o.error ELSE err
           /\ nextFig' = k + 1
           /\ pc' = IF k = NFIG THEN "completar" ELSE "fig"
    /\ UNCHANGED <<quicksort, dirs, file, loads, mensaje>>

\* figuras.append(fig<k>_...(df)), lines 1149-1161
Paso(k) ==
    /\ pc = "fig"
    /\ nextFig = k
    /\ \E o \in {figura(k, df, OUTPUT_DIR, plt, dirs)} :
           /\ calls' = Append(calls, k)
           /\ plt' = o.plt
           /\ df' = o.df
           /\ consola' = consola \o o.prints
           /\ ret' = [fig |-> k, raised |-> o.raised, error |-> o.error, path |-> o.path,
                      lista |-> <<>>, dir |-> OUTPUT_DIR]
           /\ IF o.raised
              THEN /\ pc' = "abortado"
                   /\ err' = o.error
                   /\ UNCHANGED <<figuras, disk, nextFig>>
              ELSE /\ disk' = Guardar(disk, o.path, o.saved)
                   /\ figuras' = Append(figuras, o.path)
                   /\ nextFig' = k + 1
                   /\ pc' = IF k = NFIG THEN "completar" ELSE "fig"
                   /\ err' = err
    /\ UNCHANGED <<quicksort, dirs, file, loads, mensaje>>

\* print("COMPLETADO ...") and return figuras, lines 1163-1167
Completar ==
    /\ pc = "completar"
    /\ mensaje' = TRUE
    /\ ret' = [NoRet EXCEPT !.lista = figuras]
    /\ pc' = "fin"
    /\ UNCHANGED <<quicksort, dirs, consola, file, nextFig, df, figuras, disk, plt, err, calls,
                   loads>>

Next ==
    \/ Cargar
    \/ \E k \in 1..NFIG : Paso(k)
    \/ Completar

Spec == Init /\ [][Next]_vars

(***************************************************************************)
(* A caller that loads the table once and calls figure functions one by    *)
(* one, in any order, catching what they raise.                            *)
(***************************************************************************)
\* the complete dataset, the dataset without the General rows, the dataset
\* without the Suicidio rows, and the complete dataset under a header that
\* misnames a column the loader does not read
ArchivosLlamadas ==
    {ArchivoBueno(Perturbar(Base(RateHi, RateLo), p)) :
        p \in {q \in Perturbaciones :
                  \/ q.kind = "ninguna"
                  \/ /\ q.kind = "sin"
                     /\ q.col = "causa_mortalidad"
                     /\ q.val \in {"General", "Suicidio"}}}
    \cup {[ArchivoBueno(Base(RateHi, RateLo)) EXCEPT !.header = Renombrada(i)] :
             i \in {i \in DOMAIN COLS : COLS[i] = "esperanza_vida"}}

\* the state of a caller that has loaded `f`
Cargado(f) ==
    /\ file = f
    /\ pc = "llamadas"
    /\ nextFig = 1
    /\ df = cargar_datos(f).df
    /\ figuras = <<>>
    /\ disk = DiscoVacio
    /\ plt = <<>>
    /\ err = NoError
    /\ calls = <<>>
    /\ loads = 1
    /\ ret = NoRet
    /\ mensaje = FALSE
    /\ quicksort \in {"original", "inverso"}
    /\ dirs = {OUTPUT_DIR}
    /\ consola = <<>>

\* path = fig<k>_...(df, output_dir), output_dir one of output_dirs, the caller
\* going on after an exception
Llamada(k, max, output_dirs) ==
    /\ pc = "llamadas"
    /\ Len(calls) < max
    /\ \E d \in output_dirs :
         \E o \in {figura(k, df, d, plt, dirs)} :
           /\ calls' = Append(calls, k)
           /\ plt' = o.plt
           /\ df' = o.df
           /\ consola' = consola \o o.prints
           /\ ret' = [fig |-> k, raised |-> o.raised, error |-> o.error, path |-> o.path,
                      lista |-> <<>>, dir |-> d]
           /\ disk' = IF o.raised THEN disk ELSE Guardar(disk, o.path, o.saved)
    /\ UNCHANGED <<quicksort, dirs, file, pc, nextFig, figuras, err, loads, mensaje>>

InitLlamadas == \E f \in ArchivosLlamadas : Cargado(f)

Llamar(k) == Llamada(k, MaxCalls, {OUTPUT_DIR})

NextLlamadas == \E k \in 1..NFIG : Llamar(k)

SpecLlamadas == InitLlamadas /\ [][NextLlamadas]_vars

(***************************************************************************)
(* A caller that loads any of the files that load and calls one figure     *)
(* function.                                                               *)
(***************************************************************************)
ArchivosUna == {f \in Archivos : ~cargar_datos(f).raised}

InitUna == \E f \in ArchivosUna : Cargado(f)

\* the directories a caller passes: the default, which line 35 created, and
\* one that does not exist
DIRS == {OUTPUT_DIR, "salida"}

LlamarUna(k) == Llamada(k, 1, DIRS)

NextUna == \E k \in 1..NFIG : LlamarUna(k)

SpecUna == InitUna /\ [][NextUna]_vars

(***************************************************************************)
(* The two callers, generar_todas_las_figuras being called again on the    *)
(* same file once it has returned or raised.                               *)
(***************************************************************************)
\* how many times the pipeline is run
MaxRuns == 2

\* generar_todas_las_figuras(filepath_datos) again: its locals start anew, the
\* files, the console and pyplot's open figures stay
OtraVez ==
    /\ pc \in {"fin", "abortado"}
    /\ loads < MaxRuns
    /\ pc' = "cargar"
    /\ nextFig' = 1
    /\ df' = NoTable
    /\ figuras' = <<>>
    /\ err' = NoError
    /\ calls' = <<>>
    /\ ret' = NoRet
    /\ mensaje' = FALSE
    /\ UNCHANGED <<quicksort, dirs, consola, file, disk, plt, loads>>

InitDos == Init \/ InitLlamadas

NextDos == Next \/ NextLlamadas \/ OtraVez

SpecDos == InitDos /\ [][NextDos]_vars

(***************************************************************************)
(* Properties of a run of generar_todas_las_figuras.                       *)
(***************************************************************************)
\* the path of figure k's file
Ruta(k) == PathJoin(OUTPUT_DIR, NOMBRES[k])

\* NOMBRES[k] is fig<k>_<description>.png
NombreDeForma(k) ==
    LET n == NOMBRES[k]
        pre == "fig" \o ToString(k) \o "_"
    IN  /\ Len(n) > Len(pre) + 4
        /\ SubSeq(n, 1, Len(pre)) = pre
        /\ SubSeq(n, Len(n) - 3, Len(n)) = ".png"

\* the file at Ruta(k) holds the one figure that figure function k drew
ArchivoDe(k) ==
    /\ Ruta(k) \in DOMAIN disk
    /\ Len(disk[Ruta(k)]) = 1
    /\ disk[Ruta(k)][1].fig = k

\* C1: a run in which no figure function fails ends with exactly thirteen
\* files in the output directory, one per figure function, under pairwise
\* distinct names of the form fig<N>_<description>.png, and returns the
\* thirteen paths in the order fig1, ..., fig13.
C1_TreceArchivos ==
    pc = "fin" =>
        /\ Cardinality(DOMAIN disk) = 13
        /\ DOMAIN disk = {Ruta(k) : k \in 1..13}
        /\ \A k \in 1..13 : ArchivoDe(k) /\ NombreDeForma(k)
        /\ \A j, k \in 1..13 : j # k => NOMBRES[j] # NOMBRES[k]
        /\ ret.lista = [k \in 1..13 |-> Ruta(k)]

C1_Testigo ==
    /\ pc = "fin"
    /\ file.rows = Base(RateHi, RateLo)
    /\ Len(ret.lista) = 13
    /\ Cardinality(DOMAIN disk) = 13

\* C2: when figure function k raises, the run stops there: the files of
\* figures 1..k-1 are in the output directory and stay, no later figure is
\* called or written, no figure is called twice, and neither the completion
\* message nor the list of paths is produced; a run that completes has
\* produced all thirteen.
C2_Estado ==
    /\ calls = [i \in 1..Len(calls) |-> i]
    /\ ret.raised =>
          /\ pc = "abortado"
          /\ err = ret.error
          /\ Len(calls) = ret.fig
          /\ DOMAIN disk = {Ruta(j) : j \in 1..(ret.fig - 1)}
          /\ \A j \in 1..(ret.fig - 1) : ArchivoDe(j)
          /\ ~mensaje
          /\ ret.lista = <<>>
    /\ pc = "fin" =>
          /\ err = NoError
          /\ mensaje
          /\ \A j \in 1..13 : ArchivoDe(j)

C2_Paso ==
    /\ err = NoError
    /\ pc # "fin"
    /\ \A p \in DOMAIN disk : p \in DOMAIN disk' /\ disk'[p] = disk[p]

C2_ParaEnElPrimerFallo == [](C2_Estado) /\ [][C2_Paso]_vars

C2_Testigo ==
    /\ pc = "abortado"
    /\ ret.raised
    /\ ret.fig = 6
    /\ Cardinality(DOMAIN disk) = 5

\* the file's separator and header are the expected ones
C4_Esperado == file.sep = ";" /\ file.header = COLS

\* the two columns cargar_datos itself reads (lines 91-92)
C4_Leidas == {"periodo", "causa_mortalidad"}

\* C4 (as the code has it): on a missing path cargar_datos raises
\* FileNotFoundError; on another separator, or a header without 'periodo' or
\* 'causa_mortalidad', it raises KeyError at line 91 or 92; in both cases it
\* returns no table.  A header that misnames any other column is accepted:
\* the table is returned with the file's column names.
C4_Cargador ==
    loads = 1 =>
        /\ ~file.exists =>
              /\ pc = "abortado"
              /\ err = [exc |-> "FileNotFoundError", line |-> 89]
              /\ df = NoTable
        /\ (file.exists /\ (file.sep # ";" \/ ~(C4_Leidas \subseteq Range(file.header)))) =>
              /\ pc = "abortado"
              /\ err.exc = "KeyError"
              /\ err.line = IF file.sep = ";" /\ "periodo" \in Range(file.header)
                               THEN 92 ELSE 91
              /\ df = NoTable
        /\ (file.exists /\ file.sep = ";" /\ C4_Leidas \subseteq Range(file.header)) =>
              /\ pc # "abortado" \/ ret.raised
              /\ calls = <<>> => err = NoError
              /\ df = [columns |-> Range(file.header), rows |-> file.rows]

C4_Testigo ==
    /\ loads = 1
    /\ file.exists
    /\ file.sep = ";"
    /\ file.header # COLS
    /\ pc = "fig"
    /\ calls = <<>>
    /\ df.columns = Range(file.header)

\* C4 as claimed: DataFormatError whenever the separator or the header names
\* are not the expected ones, FileNotFoundError on a missing path, and no
\* table in either case.
C4_ErrorDeFormato ==
    loads = 1 =>
        /\ ~file.exists => (err.exc = "FileNotFoundError" /\ df = NoTable)
        /\ (file.exists /\ ~C4_Esperado) => (err.exc = "DataFormatError" /\ df = NoTable)

\* C5: a load error is fatal: when cargar_datos fails in
\* generar_todas_las_figuras no figure function is called and no file is
\* written; the table is loaded once, before the first figure.
C5_CargaFatal ==
    /\ loads \in {0, 1}
    /\ loads = 0 => (calls = <<>> /\ disk = DiscoVacio /\ df = NoTable)
    /\ pc \in {"fig", "completar", "fin"} => loads = 1
    /\ (loads = 1 /\ cargar_datos(file).raised) =>
          /\ pc = "abortado"
          /\ err.exc = cargar_datos(file).exc
          /\ calls = <<>>
          /\ disk = DiscoVacio
          /\ plt = <<>>
          /\ ~mensaje
          /\ ret = NoRet

C5_Testigo ==
    /\ loads = 1
    /\ cargar_datos(file).raised
    /\ pc = "abortado"
    /\ err.exc \in {"KeyError", "FileNotFoundError"}
    /\ calls = <<>>

\* the values figure k drew into its file
V(k) == disk[Ruta(k)][1].valores

Escrita(k) == Ruta(k) \in DOMAIN disk

\* tasa_mortalidad of the Comunitat Valenciana / causa / Ambos sexos row of
\* year y that heads the rows of that year once the series is sorted by
\* year: the first of them in the table when the sort keeps rows of one year
\* in their order, the last when it reverses them
Tasa(causa, y) ==
    LET sel == SelectSeq(df.rows, LAMBDA r : /\ r.ubicacion = CV
                                             /\ r.causa_mortalidad = causa
                                             /\ r.sexo = "Ambos sexos"
                                             /\ r.periodo = y)
    IN  R(sel[IF quicksort = "original" THEN 1 ELSE Len(sel)].tasa_mortalidad)

\* c is the percent change from inicio > 0 to fin: c * inicio = (fin - inicio) * 100,
\* with the sign of fin - inicio, and -10 from 100 to 90
EsCambio(c, inicio, fin) ==
    RatGt(inicio, R(0)) =>
        /\ Finite(c)
        /\ RatMul(c, inicio) = RatMul(RatSub(fin, inicio), R(100))
        /\ fin = inicio => c = R(0)
        /\ RatGt(fin, inicio) => RatGt(c, R(0))
        /\ RatLt(fin, inicio) => RatLt(c, R(0))
        /\ (inicio = R(100) /\ fin = R(90)) => c = R(-10)

\* C8: the percent changes drawn by fig3 (each cause, 2010 to 2023), fig9
\* (Suicidio, 2010 to 2023), fig12 (2020, 2021 and post-COVID against the
\* pre-COVID baseline) and fig13 (General and Suicidio, 2010 to 2023) are
\* (end - start) / start * 100: for start > 0, zero when end = start, positive
\* when end > start, negative when end < start; from 100 to 90 the change is
\* -10 and fig13 prints it as -10.0 (kpi1_cambio counts tenths).
C8_CambioPorcentual ==
    /\ Escrita(3) =>
          \A i \in 1..4 :
              EsCambio(V(3).cambio[i], Tasa(fig3_causas[i], 2010), Tasa(fig3_causas[i], 2023))
    /\ Escrita(9) =>
          EsCambio(V(9).cambio, Tasa("Suicidio", 2010), Tasa("Suicidio", 2023))
    /\ Escrita(12) =>
          /\ V(12).valores[2] = Tasa("General", 2020)
          /\ V(12).valores[3] = Tasa("General", 2021)
          /\ \A j \in 2..4 :
                EsCambio(V(12).variaciones[j], V(12).valores[1], V(12).valores[j])
    /\ Escrita(13) =>
          /\ EsCambio(V(13).cambio_mort, Tasa("General", 2010), Tasa("General", 2023))
          /\ EsCambio(V(13).cambio_suic, Tasa("Suicidio", 2010), Tasa("Suicidio", 2023))
          /\ (Tasa("General", 2010) = R(100) /\ Tasa("General", 2023) = R(90)) =>
                V(13).kpi1_cambio = R(-100)

C8_Testigo ==
    /\ pc = "fin"
    /\ Tasa("General", 2010) = R(100)
    /\ Tasa("General", 2023) = R(90)
    /\ V(13).cambio_mort = R(-10)
    /\ V(13).kpi1_cambio = R(-100)
    /\ V(3).cambio[1] = R(-10)
    /\ RatGt(V(3).cambio[2], R(0))

\* the rates the identities of percent change are evaluated on
Signed == {RateStep * i : i \in (-MaxRate)..MaxRate} \ {0}

\* on every pair of non-zero rates, of either sign:
\* percent_change(a, b) = -percent_change(b, a) * (b / a)
C9_Algebra ==
    \A a \in Signed, b \in Signed :
        CambioPct(R(a), R(b)) = RatMul(RatNeg(CambioPct(R(b), R(a))), RatDiv(R(b), R(a)))

\* fig3 drew the change from a to b (one cause) and from b to a (another)
C9_Caso ==
    /\ Escrita(3)
    /\ Tasa("Cancer", 2010) # R(0)
    /\ Tasa("Cancer", 2023) # R(0)
    /\ Tasa("Cardio", 2010) = Tasa("Cancer", 2023)
    /\ Tasa("Cardio", 2023) = Tasa("Cancer", 2010)

\* C9 (as the code has it): for non-zero a and b,
\* percent_change(a, b) = -percent_change(b, a) * (b / a); the factor is
\* end / start of the left-hand side, b / a, not a / b.  Stated of the two
\* changes fig3 draws for a pair of causes whose 2010 and 2023 rates are
\* swapped, and on the formula itself over rates of both signs.
C9_Simetria ==
    /\ C9_Algebra
    /\ C9_Caso =>
          V(3).cambio[1] = RatMul(RatNeg(V(3).cambio[2]),
                                  RatDiv(Tasa("Cancer", 2023), Tasa("Cancer", 2010)))

C9_Testigo ==
    /\ C9_Caso
    /\ Tasa("Cancer", 2010) = R(10)
    /\ Tasa("Cancer", 2023) = R(20)
    /\ V(3).cambio[1] = R(100)
    /\ V(3).cambio[2] = R(-50)

\* C9 as claimed: percent_change(a, b) = -percent_change(b, a) * (a / b).
C9_ComoSeAfirma ==
    C9_Caso =>
        V(3).cambio[1] = RatMul(RatNeg(V(3).cambio[2]),
                                RatDiv(Tasa("Cancer", 2010), Tasa("Cancer", 2023)))

\* <<sum, count>> of tasa_mortalidad over the Comunitat Valenciana rows of a
\* cause and a sex, every year included
SumaSexo(causa, sexo) ==
    LET sel == SelectSeq(df.rows, LAMBDA r : /\ r.ubicacion = CV
                                             /\ r.causa_mortalidad = causa
                                             /\ r.sexo = sexo)
    IN  <<SumSeq([i \in DOMAIN sel |-> sel[i].tasa_mortalidad]), Len(sel)>>

\* r is (male mean) / (female mean), the female mean being > 0:
\* r * (female sum / female count) = male sum / male count
EsRatio(r, causa) ==
    LET h == SumaSexo(causa, "Hombres")
        m == SumaSexo(causa, "Mujeres")
    IN  (h[2] > 0 /\ m[2] > 0 /\ m[1] > 0) =>
            /\ r[2] > 0
            /\ r[1] * m[1] * h[2] = r[2] * h[1] * m[2]
            /\ (h[1] = 30 * h[2] /\ m[1] = 10 * m[2]) => r = R(3)

\* C10: the male/female ratio of a cause in fig4, fig9 (Suicidio) and fig13
\* is the mean rate of the cause's Hombres rows of Comunitat Valenciana over
\* the mean rate of its Mujeres rows, all years included; means of 30 and 10
\* give 3; and the three figures have the same ratio for the same cause.
C10_RatioHM ==
    /\ Escrita(4) => \A i \in 1..5 : EsRatio(V(4).ratios[i], fig4_causas[i])
    /\ Escrita(9) => EsRatio(V(9).ratio_hm, "Suicidio")
    /\ Escrita(13) => \A i \in 1..5 : EsRatio(V(13).ratios_calculados[i], fig13_causas_ratio[i])
    /\ (Escrita(4) /\ Escrita(9)) =>
          \A i \in 1..5 : fig4_causas[i] = "Suicidio" => V(9).ratio_hm = V(4).ratios[i]
    /\ (Escrita(4) /\ Escrita(13)) =>
          \A i, j \in 1..5 :
              fig4_causas[i] = fig13_causas_ratio[j] =>
                  V(4).ratios[i] = V(13).ratios_calculados[j]

C10_Testigo ==
    /\ pc = "fin"
    /\ SumaSexo("General", "Hombres") = <<60, 2>>
    /\ SumaSexo("General", "Mujeres") = <<20, 2>>
    /\ V(4).ratios[1] = R(3)
    /\ V(13).ratios_calculados[4] = R(3)
    /\ V(9).ratio_hm = V(4).ratios[5]

\* the position of x in the sequence s
Pos(s, x) == CHOOSE i \in DOMAIN s : s[i] = x

\* The ranking that figure k drew, as the sequence of its entries
\* [pos |-> the entry's place before sorting, val |-> its aggregated value]:
\* the groupby order (keys ascending) in fig2, fig7 and fig8, the order of
\* the list of causes in fig4 and fig13.
Rk(k) ==
    CASE k = 2 -> [i \in DOMAIN V(2).barras |->
                      [pos |-> Pos(CAUSAS_ALFA, V(2).barras[i].causa),
                       val |-> V(2).barras[i].media]]
      [] k = 4 -> [i \in DOMAIN V(4).causas_ord |->
                      [pos |-> Pos(fig4_causas, V(4).causas_ord[i]),
                       val |-> V(4).ratios_ord[i]]]
      [] k = 7 -> [i \in DOMAIN V(7).ranking |->
                      [pos |-> Len(PROVINCIAS) * Pos(LUGARES, V(7).ranking[i].ubicacion)
                               + Pos(PROVINCIAS, V(7).ranking[i].provincia),
                       val |-> V(7).ranking[i].tasa_mortalidad]]
      [] k = 8 -> [i \in DOMAIN V(8).heatmap_data.index |->
                      [pos |-> Pos(LUGARES, V(8).heatmap_data.index[i]),
                       val |-> MeanSkipNaN(V(8).heatmap_data.cells[i])]]
      [] k = 13 -> [i \in DOMAIN V(13).causas_ord |->
                      [pos |-> Pos(fig13_causas_ratio, V(13).causas_ord[i]),
                       val |-> V(13).ratios_ord[i]]]

Rankings == {2, 4, 7, 8, 13}
Descendentes == {4, 8, 13}

\* the entries are distinct and in the direction of the ranking
Ordenado(k) ==
    \A i, j \in DOMAIN Rk(k) :
        i < j => /\ Rk(k)[i].pos # Rk(k)[j].pos
                 /\ IF k \in Descendentes THEN ~RatLt(Rk(k)[i].val, Rk(k)[j].val)
                                          ELSE ~RatGt(Rk(k)[i].val, Rk(k)[j].val)

\* entries of equal value are in the order they had before sorting
EmpatesEnOrden(k) ==
    \A i, j \in DOMAIN Rk(k) :
        (i < j /\ Rk(k)[i].val = Rk(k)[j].val) => Rk(k)[i].pos < Rk(k)[j].pos

\* entries of equal value are in the reverse of the order they had
EmpatesInvertidos(k) ==
    \A i, j \in DOMAIN Rk(k) :
        (i < j /\ Rk(k)[i].val = Rk(k)[j].val) => Rk(k)[i].pos > Rk(k)[j].pos

\* C13 (as the code has it): every ranking is in the direction stated, each
\* entry once.  Entries of equal value are in the order the default sort
\* kind leaves them, which numpy does not promise; where it keeps equal keys
\* in their order, fig2, fig7 and fig8 show ties in the order before sorting
\* and fig4 and fig13, which reverse an ascending argsort
\* (np.argsort(...)[::-1]), show ties in the reverse of that order.
C13_Orden ==
    \A k \in Rankings :
        Escrita(k) =>
            /\ Ordenado(k)
            /\ quicksort = "original" =>
                  IF k \in {4, 13} THEN EmpatesInvertidos(k) ELSE EmpatesEnOrden(k)

\* with a sort that keeps equal keys in order, fig2 drew the tied Cancer and
\* Cardio in that order and fig4 drew the tied Cerebro before Cancer, which
\* precedes it in the list of causes
C13_Testigo ==
    /\ quicksort = "original"
    /\ Escrita(2) /\ Escrita(4)
    /\ \E i \in DOMAIN V(2).barras :
          /\ i + 1 \in DOMAIN V(2).barras
          /\ V(2).barras[i].causa = "Cancer"
          /\ V(2).barras[i + 1].causa = "Cardio"
          /\ V(2).barras[i].media = V(2).barras[i + 1].media
    /\ \E i \in DOMAIN V(4).causas_ord :
          /\ i + 1 \in DOMAIN V(4).causas_ord
          /\ V(4).causas_ord[i] = "Cerebro"
          /\ V(4).causas_ord[i + 1] = "Cancer"
          /\ V(4).ratios_ord[i] = V(4).ratios_ord[i + 1]

\* C13 as claimed: in every ranking, entries of equal value are in the
\* order they had before sorting; stated of the builds whose sort keeps
\* equal keys in their order, the ones most favourable to it.
C13_Estable ==
    \A k \in Rankings : (quicksort = "original" /\ Escrita(k)) => EmpatesEnOrden(k)

\* the selection fig8 pivots: the table's General / Ambos sexos /
\* HOSPITAL-ZONA SALUD rows
Seleccion8 ==
    SelectSeq(df.rows, LAMBDA r : /\ r.causa_mortalidad = "General"
                                  /\ r.sexo = "Ambos sexos"
                                  /\ r.nivel_geografico = HOSPITAL)

\* <<sum, count>> of tasa_mortalidad over the selection's rows of location u
\* and year y
SumaPar(u, y) ==
    LET sel == SelectSeq(Seleccion8, LAMBDA r : r.ubicacion = u /\ r.periodo = y)
    IN  <<SumSeq([i \in DOMAIN sel |-> sel[i].tasa_mortalidad]), Len(sel)>>

\* c is the mean of the rows counted in sc = <<sum, count>>: NaN of no row
EsMedia(c, sc) ==
    IF sc[2] = 0 THEN c = NaN
    ELSE c[2] > 0 /\ c[1] * sc[2] = sc[1] * c[2]

\* C14: the matrix fig8 renders has one row per distinct location of the
\* selection and one column per distinct year of it; every column is a
\* year, so the helper column 'promedio' is not one; and the cell of a
\* location and a year is the mean tasa_mortalidad of the selection's rows
\* of that pair.
C14_Matriz ==
    Escrita(8) =>
        LET h == V(8).heatmap_data
        IN  /\ Len(h.index) = Cardinality({Seleccion8[i].ubicacion : i \in DOMAIN Seleccion8})
            /\ Range(h.index) = {Seleccion8[i].ubicacion : i \in DOMAIN Seleccion8}
            /\ Len(h.columns) = Cardinality({Seleccion8[i].periodo : i \in DOMAIN Seleccion8})
            /\ Range(h.columns) = {Seleccion8[i].periodo : i \in DOMAIN Seleccion8}
            /\ DOMAIN h.cells = DOMAIN h.index
            /\ \A i \in DOMAIN h.index :
                  /\ DOMAIN h.cells[i] = DOMAIN h.columns
                  /\ \A j \in DOMAIN h.columns :
                        EsMedia(h.cells[i][j], SumaPar(h.index[i], h.columns[j]))

\* fig8 rendered a matrix of two locations and two years one of whose cells
\* is the mean of two rows of different rates
C14_Testigo ==
    /\ Escrita(8)
    /\ Len(V(8).heatmap_data.index) = 2
    /\ Len(V(8).heatmap_data.columns) = 2
    /\ \E i, j \in 1..2 :
          /\ SumaPar(V(8).heatmap_data.index[i], V(8).heatmap_data.columns[j])[2] = 2
          /\ 2 * V(8).heatmap_data.cells[i][j][1]
                = SumaPar(V(8).heatmap_data.index[i], V(8).heatmap_data.columns[j])[1]
                  * V(8).heatmap_data.cells[i][j][2]
          /\ \E r \in Range(Seleccion8) :
                /\ r.ubicacion = V(8).heatmap_data.index[i]
                /\ r.periodo = V(8).heatmap_data.columns[j]
                /\ R(r.tasa_mortalidad) # V(8).heatmap_data.cells[i][j]

\* the table's Comunitat Valenciana / Suicidio / Ambos sexos rows are one
\* row for each year 2010..2023, of rate 1000 - 5 * (year - 2010)
EsLineal ==
    LET sel == SelectSeq(df.rows, LAMBDA r : /\ r.ubicacion = CV
                                             /\ r.causa_mortalidad = "Suicidio"
                                             /\ r.sexo = "Ambos sexos")
    IN  /\ Len(sel) = 14
        /\ {sel[i].periodo : i \in DOMAIN sel} = 2010..2023
        /\ \A i \in DOMAIN sel : sel[i].tasa_mortalidad = 1000 - 5 * (sel[i].periodo - 2010)

\* the points of fig10: the table's General / HOSPITAL-ZONA SALUD rows
Puntos10 ==
    SelectSeq(df.rows, LAMBDA r : /\ r.causa_mortalidad = "General"
                                  /\ r.nivel_geografico = HOSPITAL)

\* life expectancy is a decreasing linear function of the rate over those
\* points: any three are on one line and it falls
LinealDecreciente ==
    /\ \A p, q, r \in Range(Puntos10) :
          (q.tasa_mortalidad - p.tasa_mortalidad) * (r.esperanza_vida - p.esperanza_vida)
            = (r.tasa_mortalidad - p.tasa_mortalidad) * (q.esperanza_vida - p.esperanza_vida)
    /\ \E p, q \in Range(Puntos10) :
          p.tasa_mortalidad < q.tasa_mortalidad /\ p.esperanza_vida > q.esperanza_vida

MenosUno == [signo |-> -1, cuadrado |-> R(1)]

\* C18 (as the code has it): on the series rate = 1000 - 5 * (year - 2010),
\* 2010..2023, the trend fig9 fits has slope -5 (and passes through 1000 at
\* 2010).  The program reports no Pearson r of that series: the r it
\* reports, in fig10, is that of life expectancy against the rate over the
\* General / HOSPITAL-ZONA SALUD rows, and it is -1 exactly when life
\* expectancy is a decreasing linear function of the rate over those rows.
C18_Tendencia ==
    /\ (Escrita(9) /\ EsLineal) => V(9).z = <<R(-5), R(1000 + 5 * 2010)>>
    /\ Escrita(10) => (V(10).corr = MenosUno <=> LinealDecreciente)

\* the pipeline has run on a table with the linear series whose department
\* rows are not on one line: slope -5 and an r that is not -1
C18_Testigo ==
    /\ pc = "fin"
    /\ EsLineal
    /\ V(9).z[1] = R(-5)
    /\ ~LinealDecreciente
    /\ V(10).corr.signo = -1
    /\ V(10).corr # MenosUno

\* C18 as claimed: on the linear series the trend has slope -5 and the
\* Pearson r the program reports is -1.
C18_PearsonDeLaSerie ==
    (pc = "fin" /\ EsLineal) => (V(9).z[1] = R(-5) /\ V(10).corr = MenosUno)

\* the rows of the table a single-year lookup matches, in the table's order
Coincidentes(causa, sexo, y) ==
    SelectSeq(df.rows, LAMBDA r : /\ r.ubicacion = CV
                                  /\ r.causa_mortalidad = causa
                                  /\ r.sexo = sexo
                                  /\ r.periodo = y)

\* the values of column c in those rows
ValoresDe(causa, sexo, y, c) ==
    {R(Coincidentes(causa, sexo, y)[i][c]) : i \in DOMAIN Coincidentes(causa, sexo, y)}

\* a lookup at line `line` fails only when no row matches
SoloSiVacia(line, causa, sexo, y) ==
    (pc = "abortado" /\ err.line = line) => Coincidentes(causa, sexo, y) = <<>>

\* v is the value of one matched row: of the first of the table when the
\* sort by year keeps rows of one year in their order
UnaDeLasCoincidentes(v, y) ==
    /\ v \in ValoresDe("General", "Ambos sexos", y, "tasa_mortalidad")
    /\ quicksort = "original" =>
          v = R(Coincidentes("General", "Ambos sexos", y)[1].tasa_mortalidad)

Seleccion2 ==
    SelectSeq(df.rows, LAMBDA r : r.ubicacion = CV /\ r.sexo = "Ambos sexos")

\* the causes present in that selection other than General
Especificas == {Seleccion2[i].causa_mortalidad : i \in DOMAIN Seleccion2} \ {"General"}

\* <<sum, count>> of tasa_mortalidad over the selection's rows of a cause,
\* every year included
SumaCausa(c) ==
    LET sel == SelectSeq(Seleccion2, LAMBDA r : r.causa_mortalidad = c)
    IN  <<SumSeq([i \in DOMAIN sel |-> sel[i].tasa_mortalidad]), Len(sel)>>

\* the bars are one per specific cause, each the mean of its cause, in
\* ascending order of the mean
UnaBarraPorCausa(barras) ==
    /\ Len(barras) = Cardinality(Especificas)
    /\ {barras[i].causa : i \in DOMAIN barras} = Especificas
    /\ \A i \in DOMAIN barras : EsMedia(barras[i].media, SumaCausa(barras[i].causa))
    /\ \A i, j \in DOMAIN barras : i < j => ~RatGt(barras[i].media, barras[j].media)

\* C20: when the Comunitat Valenciana / Ambos sexos selection has a General
\* row, fig2 draws one bar for each other cause present in the selection and
\* none for General, each of the length of its cause's mean rate over all
\* years, in ascending order of that mean.  With no other cause present
\* there is no bar to draw and the call ends in a ValueError (line 204); in
\* every other case the figure is written.
C20_UnaBarraPorCausa ==
    /\ Escrita(2) => UnaBarraPorCausa(V(2).barras)
    /\ (2 \in Range(calls) /\ "General" \in Range(Col(Seleccion2, "causa_mortalidad"))) =>
          IF Especificas = {} THEN ~Escrita(2) /\ err = [exc |-> "ValueError", line |-> 204]
          ELSE Escrita(2)

\* fig2 drew three bars, the last longer than the first, for a table that has
\* the General rows and lacks the rows of one of the four other causes
C20_Testigo ==
    /\ Escrita(2)
    /\ "General" \in Range(Col(Seleccion2, "causa_mortalidad"))
    /\ Cardinality(Especificas) = 3
    /\ Len(V(2).barras) = 3
    /\ RatLt(V(2).barras[1].media, V(2).barras[3].media)

\* the direction symbol of a text agrees with the change it stands next to:
\* an up arrow or a '+' only next to a change >= 0, a down arrow only next to
\* a change <= 0, and no minus sign in the number after an up arrow
Conforme(texto, cambio) ==
    /\ texto.simbolo \in {"arriba", "+"} => ~RatLt(cambio, R(0))
    /\ texto.simbolo = "abajo" => ~RatGt(cambio, R(0))
    /\ texto.simbolo = "arriba" => ~RatLt(texto.numero, R(0))

\* C21: in fig9's annotation, in fig13's general-mortality KPI and in
\* fig13's suicide-trend title the direction symbol agrees with the sign of
\* the percent change shown.
C21_SimboloConforme ==
    /\ Escrita(9) => Conforme(V(9).anotacion, V(9).cambio)
    /\ Escrita(13) => /\ Conforme(V(13).kpi1, V(13).cambio_mort)
                      /\ Conforme(V(13).titulo_suic, V(13).cambio_suic)

\* the indicator fig3 drew for its i-th cause is a down arrow with the
\* absolute value of the cause's change when the change is < 0 and an up
\* arrow with the change otherwise; for a positive rate of 2010 it is a down
\* arrow exactly when the cause's rate of 2023 is below that of 2010, and an
\* up arrow with 0.0 when the two are equal
IndicadorDe(i) ==
    LET ind == V(3).tendencia[i]
        c == V(3).cambio[i]
        inicio == Tasa(fig3_causas[i], 2010)
        fin == Tasa(fig3_causas[i], 2023)
    IN  /\ ind.simbolo \in {"abajo", "arriba"}
        /\ ind.simbolo = "abajo" <=> RatLt(c, R(0))
        /\ ind.simbolo = "abajo" => RatNeg(ind.numero) = Fmt1(c) /\ ~RatLt(ind.numero, R(0))
        /\ ind.simbolo = "arriba" => ind.numero = Fmt1(c)
        /\ RatGt(inicio, R(0)) =>
              /\ ind.simbolo = "abajo" <=> RatLt(fin, inicio)
              /\ fin = inicio => ind = [simbolo |-> "arriba", numero |-> R(0)]

\* C22: in fig3 the trend indicator of each of the four causes is a down
\* arrow with the absolute value of the change exactly when the cause's
\* change from 2010 to 2023 is < 0 and an up arrow with the change
\* otherwise, a change of 0 being an up arrow; each indicator is determined
\* by the rates of its own cause.
C22_Indicadores ==
    Escrita(3) => \A i \in DOMAIN fig3_causas : IndicadorDe(i)

\* fig3 drew a down arrow for one cause, an up arrow with a positive change
\* for another and an up arrow with 0.0 for a third
C22_Testigo ==
    /\ Escrita(3)
    /\ \E i, j, k \in DOMAIN fig3_causas :
          /\ V(3).tendencia[i].simbolo = "abajo"
          /\ RatGt(V(3).tendencia[i].numero, R(0))
          /\ V(3).tendencia[j].simbolo = "arriba"
          /\ RatGt(V(3).cambio[j], R(0))
          /\ V(3).tendencia[k] = [simbolo |-> "arriba", numero |-> R(0)]
          /\ V(3).cambio[k] = R(0)

\* the Comunitat Valenciana / General / Ambos sexos series of the table
SerieGeneral ==
    SelectSeq(df.rows, LAMBDA r : /\ r.ubicacion = CV
                                  /\ r.causa_mortalidad = "General"
                                  /\ r.sexo = "Ambos sexos")

\* C23: whenever fig1 succeeds, the value it annotates as 'Mínimo histórico'
\* is at most every rate of the Comunitat Valenciana / General / Ambos sexos
\* series and the value it annotates as 'Pico COVID' is at least every rate
\* of that series in 2020 and 2021.
C23_MinimoYPico ==
    Escrita(1) =>
        \A i \in DOMAIN SerieGeneral :
            /\ ~RatGt(V(1).minimo_historico, R(SerieGeneral[i].tasa_mortalidad))
            /\ SerieGeneral[i].periodo \in {2020, 2021} =>
                  ~RatLt(V(1).pico_covid, R(SerieGeneral[i].tasa_mortalidad))

\* the departments of a ranking, as a sequence
Departamentos(ranking) == [i \in DOMAIN ranking |-> ranking[i].ubicacion]

\* the sequence names each element of the set once and nothing else
CadaUnoUnaVez(seq, set) == Range(seq) = set /\ Len(seq) = Cardinality(set)

\* C25: the ranking of fig7, the rows of fig8's heatmap and the ranking of
\* fig13 hold the same departments, each once, and fig7 and fig13 give each
\* department the same mean rate.
C25_MismosDepartamentos ==
    (Escrita(7) /\ Escrita(8) /\ Escrita(13)) =>
        LET deps == Range(Departamentos(V(13).ranking))
        IN  /\ CadaUnoUnaVez(Departamentos(V(13).ranking), deps)
            /\ CadaUnoUnaVez(V(8).heatmap_data.index, deps)
            /\ CadaUnoUnaVez(Departamentos(V(7).ranking), deps)
            /\ \A i \in DOMAIN V(7).ranking, j \in DOMAIN V(13).ranking :
                  V(7).ranking[i].ubicacion = V(13).ranking[j].ubicacion =>
                      V(7).ranking[i].tasa_mortalidad = V(13).ranking[j].media

\* the smaller of the number of departments fig13 ranked and three
HastaTres == IF Len(V(13).ranking) < 3 THEN Len(V(13).ranking) ELSE 3

\* C26: whenever fig13 succeeds, the bars of its 'extremes by department'
\* panel are the lowest-mean departments (three of them), a separator '...'
\* of value zero and the highest-mean departments (three of them), the
\* department values ascending along the list; no department is listed
\* twice and there are as many colours as bars.
C26_Extremos ==
    Escrita(13) =>
        LET e == V(13).extremos
            n == HastaTres
            barras == DOMAIN e.depts \ {n + 1}
        IN  /\ Len(e.depts) = 2 * n + 1
            /\ Len(e.vals) = Len(e.depts)
            /\ e.depts[n + 1] = "..." /\ e.vals[n + 1] = R(0)
            /\ \A k \in barras :
                  \E i \in DOMAIN V(13).ranking :
                      /\ V(13).ranking[i].ubicacion = e.depts[k]
                      /\ V(13).ranking[i].media = e.vals[k]
            /\ \A j, k \in barras : j < k => ~RatGt(e.vals[j], e.vals[k])
            /\ \A j, k \in barras : j # k => e.depts[j] # e.depts[k]
            /\ Len(e.colors_dept) = Len(e.depts)

(***************************************************************************)
(* Properties of one call of a figure function.                            *)
(***************************************************************************)
SinAnio(rows, y) == \A i \in DOMAIN rows : rows[i].periodo # y

\* The lookups of one year's value that figure k makes, in program order:
\* <<line, TRUE when the selection has no row of that year>>.
C3_Consultas(k, t) ==
    LET ga == SelCV(t, "General", "Ambos sexos")
        su == SelCV(t, "Suicidio", "Ambos sexos")
        c3(causa) == << <<257, SinAnio(SelCV(t, causa, "Ambos sexos"), 2010)>>,
                        <<258, SinAnio(SelCV(t, causa, "Ambos sexos"), 2023)>> >>
    IN  CASE k = 1 -> << <<128, SinAnio(ga, 2023)>>, <<129, SinAnio(ga, 2021)>> >>
          [] k = 3 -> c3("Cancer") \o c3("Cardio") \o c3("Cerebro") \o c3("Suicidio")
          [] k = 6 -> << <<465, SinAnio(SelCV(t, "General", "Hombres"), 2023)>>,
                         <<469, SinAnio(SelCV(t, "General", "Mujeres"), 2023)>> >>
          [] k = 9 -> << <<653, SinAnio(su, 2010)>>, <<654, SinAnio(su, 2023)>> >>
          [] k = 12 -> << <<825, SinAnio(ga, 2020)>>, <<826, SinAnio(ga, 2021)>> >>
          [] k = 13 -> << <<917, SinAnio(ga, 2023)>>, <<918, SinAnio(ga, 2010)>>,
                          <<933, SinAnio(SelCV(t, "General", "Hombres"), 2022)>>,
                          <<934, SinAnio(SelCV(t, "General", "Mujeres"), 2022)>>,
                          <<941, SinAnio(ga, 2021)>>, <<948, SinAnio(ga, 2020)>>,
                          <<982, SinAnio(su, 2010)>>, <<983, SinAnio(su, 2023)>> >>
          [] OTHER -> <<>>

\* the line of the first lookup that finds no row, 0 when every lookup finds one
RECURSIVE PrimeraVacia(_)
PrimeraVacia(cs) ==
    IF cs = <<>> THEN 0
    ELSE IF Head(cs)[2] THEN Head(cs)[1]
    ELSE PrimeraVacia(Tail(cs))

\* the last call was of a figure one of whose year lookups finds no row, on a
\* table with the eight columns
C3_Caso ==
    /\ calls # <<>>
    /\ Range(COLS) \subseteq df.columns
    /\ PrimeraVacia(C3_Consultas(ret.fig, df)) # 0

C3_SinArchivo ==
    /\ ret.raised
    /\ ret.path = ""
    /\ disk = DiscoVacio

\* C3 (as the code has it): a figure one of whose year lookups finds no row
\* raises, returns no path and writes no file; the exception is the
\* IndexError of the first such lookup in program order, except in fig9 when
\* the table has no Suicidio / Ambos sexos row at all: then np.polyfit
\* (line 647) raises TypeError before the lookups are reached.
C3_ConsultaVacia ==
    C3_Caso =>
        /\ C3_SinArchivo
        /\ \/ ret.error = [exc |-> "IndexError",
                           line |-> PrimeraVacia(C3_Consultas(ret.fig, df))]
           \/ /\ ret.fig = 9
              /\ SelCV(df, "Suicidio", "Ambos sexos") = <<>>
              /\ ret.error = [exc |-> "TypeError", line |-> 647]

C3_Testigo ==
    /\ C3_Caso
    /\ ret.fig = 13
    /\ ret.error = [exc |-> "IndexError", line |-> 933]
    /\ disk = DiscoVacio

\* C3 as claimed: the figure raises at the lookup that finds no row.
C3_EnLaConsulta ==
    C3_Caso =>
        /\ C3_SinArchivo
        /\ ret.error.exc = "IndexError"
        /\ \E i \in DOMAIN C3_Consultas(ret.fig, df) :
               /\ C3_Consultas(ret.fig, df)[i][2]
               /\ C3_Consultas(ret.fig, df)[i][1] = ret.error.line

\* what numpy gives for num / 0 (times 100 or not): inf with the sign of
\* num, NaN for 0 / 0
Indefinido(num) == <<Sgn(num[1]), 0>>

\* <<sum, count>> of tasa_mortalidad over the Comunitat Valenciana / General /
\* Ambos sexos rows of the years ys
SumaAnios(ys) ==
    LET sel == SelectSeq(df.rows, LAMBDA r : /\ r.ubicacion = CV
                                             /\ r.causa_mortalidad = "General"
                                             /\ r.sexo = "Ambos sexos"
                                             /\ r.periodo \in ys)
    IN  <<SumSeq([i \in DOMAIN sel |-> sel[i].tasa_mortalidad]), Len(sel)>>

\* the cause has Hombres and Mujeres rows and its female mean is zero
MediaMujeresCero(causa) ==
    /\ SumaSexo(causa, "Hombres")[2] > 0
    /\ SumaSexo(causa, "Mujeres")[2] > 0
    /\ SumaSexo(causa, "Mujeres")[1] = 0

\* the last call was of figure k, into a directory that exists, on a table
\* with the eight columns on which every one of k's year lookups finds a row
C11_Llega(k) ==
    /\ calls # <<>>
    /\ ret.fig = k
    /\ ret.dir \in dirs
    /\ Range(COLS) \subseteq df.columns
    /\ PrimeraVacia(C3_Consultas(k, df)) = 0

\* the smallest department mean that fig13 drew is zero
C11_MinimoCero ==
    /\ V(13).ranking # <<>>
    /\ \E i \in DOMAIN V(13).ranking : V(13).ranking[i].media = R(0)

EV2022(sexo) ==
    LET sel == SelectSeq(df.rows, LAMBDA r : /\ r.ubicacion = CV
                                             /\ r.causa_mortalidad = "General"
                                             /\ r.periodo = 2022
                                             /\ r.sexo = sexo)
    IN  sel[1].esperanza_vida

\* C12 (as the code has it): on every table on which fig13 succeeds the
\* displayed life expectancy at 65 is the literal 20.6, whatever the table;
\* the displayed gender gap is not a literal: it is the 2022 female life
\* expectancy of the table minus the male one (first Comunitat Valenciana /
\* General row of each sex).
C12_LiteralYBrecha ==
    (calls # <<>> /\ ret.fig = 13 /\ ~ret.raised) =>
        /\ V(13).ev_dashboard = <<103, 5>>
        /\ V(13).ev_dashboard # R(EvA)
        /\ V(13).brecha_genero = R(EV2022("Mujeres") - EV2022("Hombres"))

\* fig13 succeeded on a table whose 2022 gap is 3 years and shows 20.6 and 3
C12_Testigo ==
    /\ calls # <<>>
    /\ ret.fig = 13
    /\ ~ret.raised
    /\ EV2022("Mujeres") - EV2022("Hombres") = 3
    /\ V(13).ev_dashboard = <<103, 5>>
    /\ V(13).brecha_genero = R(3)

\* the gap fig13 displays for the complete table of the highest rates
C12_BrechaDeReferencia == fig13_brecha_genero([columns |-> Range(COLS),
                                               rows |-> Base(RateHi, RateLo)])

\* C12 as claimed: both displayed values are the same on any two tables on
\* which fig13 succeeds; here, the same as on the complete table of the
\* highest rates.
C12_AmbosLiterales ==
    (calls # <<>> /\ ret.fig = 13 /\ ~ret.raised) =>
        /\ V(13).ev_dashboard = <<103, 5>>
        /\ V(13).brecha_genero = C12_BrechaDeReferencia

\* the table with its rows rotated k places
Rotar(t, k) ==
    [t EXCEPT !.rows = SubSeq(t.rows, k + 1, Len(t.rows)) \o SubSeq(t.rows, 1, k)]

\* reorderings of the rows of the table: the reverse and every rotation
Reordenaciones(t) ==
    {[t EXCEPT !.rows = Reverse(t.rows)]} \cup {Rotar(t, k) : k \in 1..(Len(t.rows) - 1)}

\* fig2 or fig5 has just drawn the table
C15_Caso(k) == calls # <<>> /\ ret.fig = k /\ ~ret.raised

\* C15: the group means fig2 (per cause) and fig5 (per cause and sex) drew
\* are the ones they draw for the same table with its rows in another
\* order, here reversed or rotated.
C15_MediaSinOrden ==
    /\ C15_Caso(2) => \A u \in Reordenaciones(df) : fig2_valores(u) = V(2)
    /\ C15_Caso(5) => \A u \in Reordenaciones(df) : fig5_valores(u) = V(5)

\* fig5 drew, for Cardio / Mujeres, the mean of two rows of different rates,
\* the second of which comes first in the reversed table
C15_Testigo ==
    /\ C15_Caso(5)
    /\ SumaSexo("Cardio", "Mujeres")[2] = 2
    /\ RatMul(V(5).tasas_m[2], R(2)) = R(SumaSexo("Cardio", "Mujeres")[1])
    /\ \E i, j \in DOMAIN df.rows :
          /\ i < j
          /\ df.rows[i].causa_mortalidad = "Cardio" /\ df.rows[i].sexo = "Mujeres"
          /\ df.rows[j].causa_mortalidad = "Cardio" /\ df.rows[j].sexo = "Mujeres"
          /\ df.rows[i].tasa_mortalidad # df.rows[j].tasa_mortalidad

\* C17: after a call of a figure function with any output_dir, one that did
\* not exist before the call included, on a table the figure can draw, the
\* directory exists and holds the figure's file.
C17_DirectorioCreado ==
    (calls # <<>> /\ PrimerError(Errores(ret.fig, df)) = NoError) =>
        /\ ret.dir \in dirs
        /\ PathJoin(ret.dir, NOMBRES[ret.fig]) \in DOMAIN disk
        /\ ~ret.raised

\* the last call was of figure k, into a directory that exists, on a table
\* with the eight columns
LlegaCon(k) ==
    /\ calls # <<>>
    /\ ret.fig = k
    /\ ret.dir \in dirs
    /\ Range(COLS) \subseteq df.columns

\* b is the baseline of the years ys: the mean of the rows the table has for
\* them, the rate of the only row when there is one, NaN when there is none
EsLineaBase(b, ys) ==
    /\ EsMedia(b, SumaAnios(ys))
    /\ SumaAnios(ys)[2] = 1 => b = R(SumaAnios(ys)[1])
    /\ SumaAnios(ys)[2] = 0 => b = NaN

\* C24: the pre-COVID and post-COVID baselines of fig12 and fig13 are the
\* means of the rows present for their two years: the other year's rate
\* when one year has no row, NaN when neither has; no call fails at a
\* baseline (lines 824, 827, 947, 949), while a missing 2020 or 2021 row
\* raises IndexError at its lookup.
C24_LineasBase ==
    /\ LlegaCon(12) =>
          /\ ret.raised => ret.error.line \notin {824, 827}
          /\ Coincidentes("General", "Ambos sexos", 2020) = <<>> =>
                ret.raised /\ ret.error = [exc |-> "IndexError", line |-> 825]
          /\ ~ret.raised =>
                /\ EsLineaBase(V(12).valores[1], {2018, 2019})
                /\ EsLineaBase(V(12).valores[4], {2022, 2023})
    /\ LlegaCon(13) =>
          /\ ret.raised => ret.error.line \notin {947, 949}
          /\ (ret.raised /\ Coincidentes("General", "Ambos sexos", 2020) = <<>>) =>
                ret.error.exc = "IndexError" /\ ret.error.line <= 948
          /\ ~ret.raised =>
                /\ EsLineaBase(V(13).valores_covid[1], {2018, 2019})
                /\ EsLineaBase(V(13).valores_covid[4], {2022, 2023})

\* fig12 succeeded on a table that has no General row for 2018 and one for
\* 2019: its pre-COVID bar is the rate of 2019
C24_Testigo ==
    /\ LlegaCon(12)
    /\ ~ret.raised
    /\ SumaAnios({2018})[2] = 0
    /\ SumaAnios({2019})[2] = 1
    /\ V(12).valores[1] = R(SumaAnios({2019})[1])
    /\ RatGt(V(12).valores[1], R(0))

\* the columns fig11 reads
Requeridas11 == Range(COLS) \ {"esperanza_vida"}

\* the General / Ambos sexos rows of the table at PROVINCIA level for a
\* province
FilasDeProvincia(p) ==
    SelectSeq(df.rows, LAMBDA r : /\ r.provincia = p
                                  /\ r.nivel_geografico = "PROVINCIA"
                                  /\ r.causa_mortalidad = "General"
                                  /\ r.sexo = "Ambos sexos")

\* the last call was of fig11, into a directory that exists, on a table with
\* the columns fig11 reads
Llega11 ==
    /\ calls # <<>>
    /\ ret.fig = 11
    /\ ret.dir \in dirs
    /\ Requeridas11 \subseteq df.columns

\* C27: on every table with the columns it reads fig11 returns the path of
\* fig11_comparativa_provincias.png and writes the file; it draws a line for
\* exactly the provinces among Alicante, Valencia and Castellón that have a
\* PROVINCIA-level row, and the Comunitat Valenciana line with one point
\* per row of that series, whichever rows are missing.
C27_SinFalloPorDatos ==
    Llega11 =>
        /\ ~ret.raised
        /\ ret.path = PathJoin(ret.dir, NOMBRES[11])
        /\ ret.path \in DOMAIN disk
        /\ LET v == disk[ret.path][1].valores
           IN  /\ \A p \in {"Alicante", "Valencia", "Castellón"} :
                     p \in Range(v.lineas) <=> FilasDeProvincia(p) # <<>>
               /\ Len(v.lineas) = Cardinality(Range(v.lineas))
               /\ Len(v.media_cv) = Len(SerieGeneral)

\* fig11 wrote its file for a table without any General row: no province
\* line and an empty Comunitat Valenciana line
C27_Testigo ==
    /\ Llega11
    /\ ~ret.raised
    /\ ret.path \in DOMAIN disk
    /\ \A i \in DOMAIN df.rows : df.rows[i].causa_mortalidad # "General"
    /\ disk[ret.path][1].valores.lineas = <<>>
    /\ disk[ret.path][1].valores.media_cv = <<>>

(***************************************************************************)
(* Properties of sequences of calls of figure functions.                   *)
(***************************************************************************)
\* C6: after any sequence of calls of figure functions, failed ones
\* included, the table is the one cargar_datos returned: same columns (no
\* 'promedio'), same rows in the same order with the same values.
C6_TablaInmutable ==
    /\ df = cargar_datos(file).df
    /\ df.columns = Range(file.header)
    /\ df.rows = file.rows
    /\ "promedio" \notin df.columns

C6_Testigo ==
    /\ calls = <<8, 9>>
    /\ Ruta(8) \in DOMAIN disk
    /\ ret.raised
    /\ plt # <<>>

\* what figure function k yields on the loaded table when it is the only call
Sola(k) == figura(k, cargar_datos(file).df, OUTPUT_DIR, <<>>, {OUTPUT_DIR})

\* C7: whatever calls came before, in whatever order, a figure function
\* raises or returns, computes the values and writes the file under the path
\* that it does when it is the only call on the loaded table; and a call
\* leaves the files of the other figures as they are.
C7_Estado ==
    calls # <<>> =>
        \E o \in {Sola(ret.fig)} :
            /\ ret.raised = o.raised
            /\ ret.error = o.error
            /\ ret.path = o.path
            /\ ~o.raised => (o.path \in DOMAIN disk /\ disk[o.path] = o.saved)

C7_Paso ==
    /\ DOMAIN disk' = DOMAIN disk \cup (IF ret'.raised THEN {} ELSE {ret'.path})
    /\ \A p \in DOMAIN disk : p # ret'.path => disk'[p] = disk[p]

C7_Independientes == [](C7_Estado) /\ [][C7_Paso]_vars

C7_Testigo ==
    /\ Len(calls) = 2
    /\ calls[1] > calls[2]
    /\ plt # <<>>
    /\ ~ret.raised
    /\ Cardinality(DOMAIN disk) = 1

(***************************************************************************)
(* Properties of repeated calls and repeated runs.                         *)
(***************************************************************************)
\* what n runs of the pipeline printed is n times what the first printed
C16_Consola ==
    (pc \in {"fin", "abortado"} /\ loads > 0) =>
        /\ Len(consola) % loads = 0
        /\ \A i \in DOMAIN consola :
              consola[i] = consola[((i - 1) % (Len(consola) \div loads)) + 1]
        /\ pc = "fin" => Cardinality(DOMAIN disk) = NFIG

\* a figure function called again leaves every file as it was and adds none;
\* called twice in a row it returns the same path, or raises the same
\* exception; and no step of either caller changes or removes a file
C16_Paso ==
    /\ (pc = "llamadas" /\ calls' # calls /\ calls'[Len(calls')] \in Range(calls)) =>
          disk' = disk
    /\ (pc = "llamadas" /\ calls # <<>> /\ calls' = Append(calls, calls[Len(calls)])) =>
          ret' = ret
    /\ \A p \in DOMAIN disk : p \in DOMAIN disk' /\ disk'[p] = disk[p]

\* C16: a figure function called twice on the same table writes the same
\* path with the same values, the number of files not growing; the pipeline
\* run twice on the same file prints the same numeric values both times and
\* leaves the same thirteen files.
C16_Idempotente == [](C16_Consola) /\ [][C16_Paso]_vars

\* the pipeline has run twice to the end: eighteen lines of values printed,
\* the second nine equal to the first nine, and thirteen files
C16_Testigo ==
    /\ pc = "fin"
    /\ loads = 2
    /\ Len(consola) = 18
    /\ \A i \in 1..9 : consola[i + 9] = consola[i]
    /\ consola[3].line = 921
    /\ Cardinality(DOMAIN disk) = NFIG

=============================================================================
